---- MODULE Spec2Model ----
(***************************************************************************)
(* Rummy rule engine and turn state machine of ginrummyaz.                 *)
(*                                                                         *)
(* Sources: server/deck.js (src/unnamed/part_003), server/gameEngine.js    *)
(* and server/gameManager.js (the second, current listing appended to      *)
(* src/OFFLINE_SETUP.md, lines 619-1459).                                  *)
(*                                                                         *)
(* A card is its position in createMultipleDecks' output                   *)
(*     id = deckIndex*52 + suitIndex*13 + (value - 1)                      *)
(* which is a bijection with the code's id `${deckIndex}_${rank}_${suit}`. *)
(* A rank is represented by its value (getRankValue is injective).         *)
(* Arrays are sequences; player indices are 0-based as in the code.        *)
(***************************************************************************)
EXTENDS Integers, Sequences, FiniteSets, TLC

VARIABLES
    game,         \* this.games.get(lobbyCode): the gameState object of one match
    lobby,        \* the lobby's players: each seat's socket id and connected flag
    nextMeldId,   \* source of fresh meld ids (the Date.now()/Math.random() strings)
    result,       \* the last engine call and what it returned
    steps         \* number of accepted calls so far (bounded by MaxSteps)

vars == <<game, lobby, nextMeldId, result, steps>>

----------------------------------------------------------------------------
(* Bounds of the model *)

NumDecks == 1        \* settings.numDecks
NumSuits == 3        \* suits of each deck that are in the modelled pool
LowRanks == 4        \* ranks A..LowRanks are in the modelled pool
NumPlayers == 2      \* size of the roster handed to initGame
CardsPerPlayer == 4  \* cards dealt to each player (the code deals 10)
MaxCut == 1          \* number of cuts tried per shuffle
MaxNamed == 4        \* cards of the hand (from its front) that requests name
MaxSteps == 4        \* calls per behaviour that are accepted or change the match
MaxRegistrySteps == 4  \* registry calls per behaviour that are accepted or change a match
BotDepthLimit == 2   \* the depth at which findBestMeldCombination stops (10 in the source)

(* Program constants *)
RanksPerSuit == 13   \* RANKS.length
SuitsPerDeck == 4    \* SUITS.length
AceHighValue == 14
Undefined == 0 - 1   \* JavaScript's undefined where a card is expected

DeckSize == RanksPerSuit * SuitsPerDeck
HighRanks == LowRanks - 2   \* ranks K-HighRanks+1..K are in the modelled pool

----------------------------------------------------------------------------
(* Generic array helpers (JavaScript Array methods) *)

Min(a, b) == IF a < b THEN a ELSE b
Max(a, b) == IF a > b THEN a ELSE b

Range(s) == {s[i] : i \in 1..Len(s)}

\* Array.prototype.splice(idx, 1) with 1-based idx
RemoveAt(s, i) == SubSeq(s, 1, i - 1) \o SubSeq(s, i + 1, Len(s))

\* Array.prototype.findIndex, 1-based; 0 when absent (the code's -1)
IndexOf(s, x) ==
    IF x \in Range(s) THEN CHOOSE i \in 1..Len(s) : s[i] = x /\ \A j \in 1..(i - 1) : s[j] # x
    ELSE 0

\* idx = findIndex(c => c.id === x); if (idx !== -1) splice(idx, 1)
RemoveCard(s, x) == IF IndexOf(s, x) = 0 THEN s ELSE RemoveAt(s, IndexOf(s, x))

RECURSIVE RemoveCards(_, _)
RemoveCards(s, xs) ==
    IF xs = <<>> THEN s ELSE RemoveCards(RemoveCard(s, Head(xs)), Tail(xs))

\* Array.prototype.flatMap(m => m.cards) over an array of arrays
RECURSIVE Flatten(_)
Flatten(ss) == IF ss = <<>> THEN <<>> ELSE Head(ss) \o Flatten(Tail(ss))

\* melds.flatMap(m => m.cards)
RECURSIVE TableCards(_)
TableCards(ms) == IF ms = <<>> THEN <<>> ELSE Head(ms).cards \o TableCards(Tail(ms))

----------------------------------------------------------------------------
(* deck.js *)

DeckIndexOf(c) == c \div DeckSize
SuitOf(c) == (c % DeckSize) \div RanksPerSuit
ValueOf(c) == (c % RanksPerSuit) + 1          \* getRankValue(card.rank)
IsAce(c) == ValueOf(c) = 1                     \* card.rank === 'A'

ModelRanks == (1..LowRanks) \cup ((RanksPerSuit - HighRanks + 1)..RanksPerSuit)

InPool(c) == SuitOf(c) < NumSuits /\ ValueOf(c) \in ModelRanks

RECURSIVE CardsFrom(_, _)
CardsFrom(c, n) ==
    IF c >= n THEN <<>>
    ELSE (IF InPool(c) THEN <<c>> ELSE <<>>) \o CardsFrom(c + 1, n)

\* createMultipleDecks(numDecks), restricted to the modelled pool
createMultipleDecks(numDecks) == CardsFrom(0, numDecks * DeckSize)

Pool == Range(createMultipleDecks(NumDecks))

\* Dealing the array into k piles and stacking them: a permutation for every k
RECURSIVE Pile(_, _, _)
Pile(s, i, k) == IF i > Len(s) THEN <<>> ELSE <<s[i]>> \o Pile(s, i + k, k)

RECURSIVE Piles(_, _, _)
Piles(s, j, k) == IF j > k THEN <<>> ELSE Pile(s, j, k) \o Piles(s, j + 1, k)

Rotate(s, r) ==
    IF Len(s) = 0 THEN s
    ELSE SubSeq(s, (r % Len(s)) + 1, Len(s)) \o SubSeq(s, 1, r % Len(s))

\* shuffle(cards): the permutations of cards the model lets Math.random produce
shuffle(cards) ==
    {Rotate(Piles(cards, 1, k), r * CardsPerPlayer) :
        k \in {1, Cardinality(ModelRanks)}, r \in 0..(MaxCut - 1)}

\* Array.prototype.splice(0, n) / shift(): what is taken, and what remains
Take(s, n) == SubSeq(s, 1, Min(n, Len(s)))
Drop(s, n) == SubSeq(s, Min(n, Len(s)) + 1, Len(s))
Shift(s) == IF s = <<>> THEN Undefined ELSE Head(s)

dealCards(d, numPlayers, cardsPerPlayer) ==
    [hands |-> [i \in 0..(numPlayers - 1) |->
                    Take(Drop(d, i * cardsPerPlayer), cardsPerPlayer)],
     deck |-> Drop(Drop(d, numPlayers * cardsPerPlayer), 1),
     discardPile |-> <<Shift(Drop(d, numPlayers * cardsPerPlayer))>>]
----------------------------------------------------------------------------
(* gameEngine.js *)

\* Array.prototype.sort by a numeric key (stable): key is a function on cards
InsertByKey(sorted, x, key) ==
    LET n == Cardinality({i \in 1..Len(sorted) : key[sorted[i]] <= key[x]})
    IN  SubSeq(sorted, 1, n) \o <<x>> \o SubSeq(sorted, n + 1, Len(sorted))

RECURSIVE SortByKey(_, _)
SortByKey(s, key) ==
    IF Len(s) <= 1 THEN s
    ELSE InsertByKey(SortByKey(SubSeq(s, 1, Len(s) - 1), key), s[Len(s)], key)

LowKey(cards) == [c \in Range(cards) |-> ValueOf(c)]
HighKey(cards) == [c \in Range(cards) |-> IF IsAce(c) THEN AceHighValue ELSE ValueOf(c)]

\* isConsecutive(sortedCards), and its inlined ace-high twin
isConsecutive(sorted, key) ==
    \A i \in 2..Len(sorted) : key[sorted[i]] = key[sorted[i - 1]] + 1

\* isValidRun without its second try, the ace-high run
isValidRun_NoAceHigh(cards) ==
    IF Len(cards) < 3 THEN FALSE
    ELSE IF ~(\A i \in 1..Len(cards) : SuitOf(cards[i]) = SuitOf(cards[1])) THEN FALSE
    ELSE isConsecutive(SortByKey(cards, LowKey(cards)), LowKey(cards))

isValidRun(cards) ==
    IF Len(cards) < 3 THEN FALSE
    ELSE IF ~(\A i \in 1..Len(cards) : SuitOf(cards[i]) = SuitOf(cards[1])) THEN FALSE
    ELSE IF isConsecutive(SortByKey(cards, LowKey(cards)), LowKey(cards)) THEN TRUE
    ELSE IF \E i \in 1..Len(cards) : IsAce(cards[i])
         THEN isConsecutive(SortByKey(cards, HighKey(cards)), HighKey(cards))
    ELSE FALSE

\* isValidSet that wants a different suit for every card
isValidSet_DistinctSuits(cards) ==
    IF Len(cards) < 3 THEN FALSE
    ELSE /\ \A i \in 1..Len(cards) : ValueOf(cards[i]) = ValueOf(cards[1])
         /\ \A i, j \in 1..Len(cards) : SuitOf(cards[i]) = SuitOf(cards[j]) => i = j

isValidSet(cards) ==
    IF Len(cards) < 3 THEN FALSE
    ELSE \A i \in 1..Len(cards) : ValueOf(cards[i]) = ValueOf(cards[1])

isValidMeld(cards) == isValidRun(cards) \/ isValidSet(cards)

ErrRemoved == "Cannot remove cards from the table back to hand"
ErrNotFromHand == "New cards must come from your hand"
ErrMeldInvalid == "Meld is not valid"   \* the message also numbers the meld
ErrMeldTooSmall == "Each meld must have at least 3 cards"

\* validateRearrangement without its per-meld validity rule
validateRearrangement_NoMeldRule(currentMelds, proposedMelds, playerHand) ==
    LET currentIds == Range(TableCards(currentMelds))
        proposedIds == Range(TableCards(proposedMelds))
        handIds == Range(playerHand)
    IN  IF \E id \in currentIds : id \notin proposedIds
            THEN [valid |-> FALSE, error |-> ErrRemoved]
        ELSE IF \E id \in proposedIds : id \notin currentIds /\ id \notin handIds
            THEN [valid |-> FALSE, error |-> ErrNotFromHand]
        ELSE IF \E i \in 1..Len(proposedMelds) : Len(proposedMelds[i].cards) \in {1, 2}
            THEN [valid |-> FALSE, error |-> ErrMeldTooSmall]
        ELSE [valid |-> TRUE, error |-> ""]

\* validateRearrangement without its rule on removed cards
validateRearrangement_NoRemovalRule(currentMelds, proposedMelds, playerHand) ==
    LET currentIds == Range(TableCards(currentMelds))
        proposedIds == Range(TableCards(proposedMelds))
        handIds == Range(playerHand)
    IN  IF \E id \in proposedIds : id \notin currentIds /\ id \notin handIds
            THEN [valid |-> FALSE, error |-> ErrNotFromHand]
        ELSE IF \E i \in 1..Len(proposedMelds) :
                    Len(proposedMelds[i].cards) > 0 /\ ~isValidMeld(proposedMelds[i].cards)
            THEN [valid |-> FALSE, error |-> ErrMeldInvalid]
        ELSE [valid |-> TRUE, error |-> ""]

\* validateRearrangement with the rule on new cards tried before the rule on
\* removed cards
validateRearrangement_HandRuleFirst(currentMelds, proposedMelds, playerHand) ==
    LET currentIds == Range(TableCards(currentMelds))
        proposedIds == Range(TableCards(proposedMelds))
        handIds == Range(playerHand)
    IN  IF \E id \in proposedIds : id \notin currentIds /\ id \notin handIds
            THEN [valid |-> FALSE, error |-> ErrNotFromHand]
        ELSE IF \E id \in currentIds : id \notin proposedIds
            THEN [valid |-> FALSE, error |-> ErrRemoved]
        ELSE IF \E i \in 1..Len(proposedMelds) :
                    Len(proposedMelds[i].cards) > 0 /\ ~isValidMeld(proposedMelds[i].cards)
            THEN [valid |-> FALSE, error |-> ErrMeldInvalid]
        ELSE [valid |-> TRUE, error |-> ""]

\* validateRearrangement(currentMelds, proposedMelds, playerHand)
validateRearrangement(currentMelds, proposedMelds, playerHand) ==
    LET currentIds == Range(TableCards(currentMelds))
        proposedIds == Range(TableCards(proposedMelds))
        handIds == Range(playerHand)
        validMelds == SelectSeq(proposedMelds, LAMBDA m : Len(m.cards) > 0)
    IN  IF \E id \in currentIds : id \notin proposedIds
            THEN [valid |-> FALSE, error |-> ErrRemoved]
        ELSE IF \E id \in proposedIds : id \notin currentIds /\ id \notin handIds
            THEN [valid |-> FALSE, error |-> ErrNotFromHand]
        ELSE IF \E i \in 1..Len(proposedMelds) :
                    Len(proposedMelds[i].cards) > 0 /\ ~isValidMeld(proposedMelds[i].cards)
            THEN [valid |-> FALSE, error |-> ErrMeldInvalid]
        ELSE IF \E i \in 1..Len(validMelds) : Len(validMelds[i].cards) < 3
            THEN [valid |-> FALSE, error |-> ErrMeldTooSmall]
        ELSE [valid |-> TRUE, error |-> ""]

checkWin(playerHand) == Len(playerHand) = 0

\* calculateHandPoints with J, Q and K counted at their run value
RECURSIVE calculateHandPoints_FaceValue(_)
calculateHandPoints_FaceValue(hand) ==
    IF hand = <<>> THEN 0
    ELSE calculateHandPoints_FaceValue(SubSeq(hand, 1, Len(hand) - 1)) +
         ValueOf(hand[Len(hand)])

RECURSIVE calculateHandPoints(_)
calculateHandPoints(hand) ==
    IF hand = <<>> THEN 0
    ELSE calculateHandPoints(SubSeq(hand, 1, Len(hand) - 1)) +
         (IF IsAce(hand[Len(hand)]) THEN 1
          ELSE IF ValueOf(hand[Len(hand)]) > 10 THEN 10
          ELSE ValueOf(hand[Len(hand)]))
----------------------------------------------------------------------------
(* gameManager.js: the match state and the human operations *)

Seats == 0..(NumPlayers - 1)

\* Transport ids: seat i of the roster starts with socket id i + 1 (a test
\* player's id is never a socket's); Stranger is a socket that holds no seat.
Stranger == 0
InitialId(i) == i + 1

NoWinner ==
    [set |-> FALSE, playerId |-> Stranger,
     scores |-> <<>>]

\* game.winner = { playerId, playerName, scores: game.players.map(...) }
WinnerRecord(g, playerId) ==
    [set |-> TRUE, playerId |-> playerId,
     scores |-> [i \in DOMAIN g.ids |-> [points |-> calculateHandPoints(g.hands[i]),
                                  isWinner |-> g.ids[i] = playerId]]]

\* initGame(lobbyCode, players, settings, firstPlayerIndex), given the outcome
\* of shuffle(createMultipleDecks(numDecks)) and the roster's bot flags
initGame(bots, shuffledDeck, firstPlayerIndex) ==
    LET numPlayers == Cardinality(DOMAIN bots)
        dealt == dealCards(shuffledDeck, numPlayers, CardsPerPlayer)
        validFirstPlayer == Max(0, Min(firstPlayerIndex, numPlayers - 1))
    IN  [ids |-> [i \in DOMAIN bots |-> InitialId(i)],
         isTestPlayer |-> bots,
         connected |-> [i \in DOMAIN bots |-> TRUE],
         hands |-> dealt.hands,
         deck |-> dealt.deck,
         discardPile |-> dealt.discardPile,
         melds |-> <<>>,
         currentTurn |-> validFirstPlayer,
         phase |-> "draw",
         winner |-> NoWinner]

\* game.players.findIndex(p => p.id === playerId)
findIndex(g, playerId) ==
    IF \E i \in DOMAIN g.ids : g.ids[i] = playerId
    THEN CHOOSE i \in DOMAIN g.ids :
            g.ids[i] = playerId /\ \A j \in DOMAIN g.ids : g.ids[j] = playerId => i <= j
    ELSE 0 - 1

ErrPlayerNotFound == "Player not found"
ErrNotYourTurn == "Not your turn"
ErrAlreadyDrew == "Already drew a card this turn"
ErrDrawFirst == "Draw a card first"
ErrEmptyPile == "Discard pile is empty"
ErrInvalidSource == "Invalid source"
ErrCardsNotInHand == "Some cards not found in hand"
ErrCardNotInHand == "Card not found in hand"
ErrInvalidMeld == "Invalid meld. Must be 3+ consecutive same suit or 3+ same rank"
ErrKeepOneMeld == "You cannot play all your cards. You must keep one card to discard to win."
ErrKeepOneAdd == "You cannot play your last card. You must discard to win."
ErrMeldNotFound == "Meld not found"
ErrAddInvalid == "Adding this card would create an invalid meld"
ErrMustDiscard == "You must discard a card or go out with no cards"
ErrNoCardsLeft == "No cards left"
TypeError == "TypeError: Cannot read properties of undefined"

\* What a call returns: { success: false, error }, { success: true, ... },
\* null (playBotTurn only), or no value at all because the call threw.
Rejected(g, err) == [game |-> g, ret |-> "fail", error |-> err]
Accepted(g) == [game |-> g, ret |-> "ok", error |-> ""]
Thrown(g, err) == [game |-> g, ret |-> "throw", error |-> err]
ReturnedNull(g) == [game |-> g, ret |-> "null", error |-> ""]

Pop(s) == IF s = <<>> THEN Undefined ELSE s[Len(s)]
ButLast(s) == IF s = <<>> THEN s ELSE SubSeq(s, 1, Len(s) - 1)

\* drawCard without its phase check
drawCard_NoPhaseCheck(g, playerId, source, reshuffled) ==
    LET playerIndex == findIndex(g, playerId)
        refill == source = "deck" /\ Len(g.deck) = 0
        deck1 == IF refill THEN reshuffled ELSE g.deck
        discard1 == IF refill THEN <<Pop(g.discardPile)>> ELSE g.discardPile
        drawnCard == IF source = "deck" THEN Shift(deck1) ELSE Pop(discard1)
    IN  IF playerIndex = 0 - 1 THEN Rejected(g, ErrPlayerNotFound)
        ELSE IF g.currentTurn # playerIndex THEN Rejected(g, ErrNotYourTurn)
        ELSE IF source = "deck" THEN
            Accepted([g EXCEPT !.deck = Drop(deck1, 1),
                               !.discardPile = discard1,
                               !.hands[playerIndex] = Append(@, drawnCard),
                               !.phase = "play"])
        ELSE IF source = "discard" THEN
            IF Len(g.discardPile) = 0 THEN Rejected(g, ErrEmptyPile)
            ELSE Accepted([g EXCEPT !.discardPile = ButLast(@),
                                    !.hands[playerIndex] = Append(@, drawnCard),
                                    !.phase = "play"])
        ELSE Rejected(g, ErrInvalidSource)

\* drawCard(lobbyCode, playerId, source); reshuffled is what shuffle returns
\* should the draw pile have to be refilled
drawCard(g, playerId, source, reshuffled) ==
    LET playerIndex == findIndex(g, playerId)
        refill == source = "deck" /\ Len(g.deck) = 0
        deck1 == IF refill THEN reshuffled ELSE g.deck
        discard1 == IF refill THEN <<Pop(g.discardPile)>> ELSE g.discardPile
        drawnCard == IF source = "deck" THEN Shift(deck1) ELSE Pop(discard1)
    IN  IF playerIndex = 0 - 1 THEN Rejected(g, ErrPlayerNotFound)
        ELSE IF g.currentTurn # playerIndex THEN Rejected(g, ErrNotYourTurn)
        ELSE IF g.phase # "draw" THEN Rejected(g, ErrAlreadyDrew)
        ELSE IF source = "deck" THEN
            Accepted([g EXCEPT !.deck = Drop(deck1, 1),
                               !.discardPile = discard1,
                               !.hands[playerIndex] = Append(@, drawnCard),
                               !.phase = "play"])
        ELSE IF source = "discard" THEN
            IF Len(g.discardPile) = 0 THEN Rejected(g, ErrEmptyPile)
            ELSE Accepted([g EXCEPT !.discardPile = ButLast(@),
                                    !.hands[playerIndex] = Append(@, drawnCard),
                                    !.phase = "play"])
        ELSE Rejected(g, ErrInvalidSource)

\* playMeld(lobbyCode, playerId, cardIds); meldId is the fresh id string
playMeld(g, playerId, cardIds, meldId) ==
    LET playerIndex == findIndex(g, playerId)
        hand == g.hands[playerIndex]
        cards == SelectSeq(cardIds, LAMBDA id : id \in Range(hand))
    IN  IF playerIndex = 0 - 1 THEN Rejected(g, ErrPlayerNotFound)
        ELSE IF g.currentTurn # playerIndex THEN Rejected(g, ErrNotYourTurn)
        ELSE IF g.phase # "play" THEN Rejected(g, ErrDrawFirst)
        ELSE IF Len(cards) # Len(cardIds) THEN Rejected(g, ErrCardsNotInHand)
        ELSE IF ~isValidMeld(cards) THEN Rejected(g, ErrInvalidMeld)
        ELSE IF Len(hand) - Len(cards) = 0 THEN Rejected(g, ErrKeepOneMeld)
        ELSE Accepted([g EXCEPT !.hands[playerIndex] = RemoveCards(hand, cards),
                                !.melds = Append(@, [id |-> meldId, cards |-> cards])])

\* game.melds.find(m => m.id === meldId), as a 1-based index (0: not found)
findMeld(ms, meldId) ==
    IF \E i \in 1..Len(ms) : ms[i].id = meldId
    THEN CHOOSE i \in 1..Len(ms) : ms[i].id = meldId /\ \A j \in 1..(i - 1) : ms[j].id # meldId
    ELSE 0

\* addToMeld that puts the card at the end of the meld whatever the position
addToMeld_AlwaysEnd(g, playerId, cardId, meldId, position) ==
    LET playerIndex == findIndex(g, playerId)
        hand == g.hands[playerIndex]
        m == findMeld(g.melds, meldId)
        newCards == Append(g.melds[m].cards, cardId)
    IN  IF playerIndex = 0 - 1 THEN Rejected(g, ErrPlayerNotFound)
        ELSE IF g.currentTurn # playerIndex THEN Rejected(g, ErrNotYourTurn)
        ELSE IF g.phase # "play" THEN Rejected(g, ErrDrawFirst)
        ELSE IF cardId \notin Range(hand) THEN Rejected(g, ErrCardNotInHand)
        ELSE IF m = 0 THEN Rejected(g, ErrMeldNotFound)
        ELSE IF ~isValidMeld(newCards) THEN Rejected(g, ErrAddInvalid)
        ELSE IF Len(hand) - 1 = 0 THEN Rejected(g, ErrKeepOneAdd)
        ELSE Accepted([g EXCEPT !.hands[playerIndex] = RemoveCard(hand, cardId),
                                !.melds[m].cards = newCards])

\* addToMeld(lobbyCode, playerId, cardId, meldId, position)
addToMeld(g, playerId, cardId, meldId, position) ==
    LET playerIndex == findIndex(g, playerId)
        hand == g.hands[playerIndex]
        m == findMeld(g.melds, meldId)
        newCards == IF position = "start" THEN <<cardId>> \o g.melds[m].cards
                    ELSE Append(g.melds[m].cards, cardId)
    IN  IF playerIndex = 0 - 1 THEN Rejected(g, ErrPlayerNotFound)
        ELSE IF g.currentTurn # playerIndex THEN Rejected(g, ErrNotYourTurn)
        ELSE IF g.phase # "play" THEN Rejected(g, ErrDrawFirst)
        ELSE IF cardId \notin Range(hand) THEN Rejected(g, ErrCardNotInHand)
        ELSE IF m = 0 THEN Rejected(g, ErrMeldNotFound)
        ELSE IF ~isValidMeld(newCards) THEN Rejected(g, ErrAddInvalid)
        ELSE IF Len(hand) - 1 = 0 THEN Rejected(g, ErrKeepOneAdd)
        ELSE Accepted([g EXCEPT !.hands[playerIndex] = RemoveCard(hand, cardId),
                                !.melds[m].cards = newCards])

\* rearrangeTable(lobbyCode, playerId, proposedMelds, cardsFromHand)
rearrangeTable(g, playerId, proposedMelds, cardsFromHand) ==
    LET playerIndex == findIndex(g, playerId)
        hand == g.hands[playerIndex]
        validation == validateRearrangement(g.melds, proposedMelds, hand)
    IN  IF playerIndex = 0 - 1 THEN Rejected(g, ErrPlayerNotFound)
        ELSE IF g.currentTurn # playerIndex THEN Rejected(g, ErrNotYourTurn)
        ELSE IF g.phase # "play" THEN Rejected(g, ErrDrawFirst)
        ELSE IF ~validation.valid THEN Rejected(g, validation.error)
        ELSE IF Len(hand) - Len(cardsFromHand) = 0 THEN Rejected(g, ErrKeepOneMeld)
        ELSE Accepted([g EXCEPT !.hands[playerIndex] = RemoveCards(hand, cardsFromHand),
                                !.melds = SelectSeq(proposedMelds, LAMBDA pm : Len(pm.cards) > 0)])

\* discard that passes the turn to the next connected seat
discard_SkipDisconnected(g, playerId, cardId) ==
    LET playerIndex == findIndex(g, playerId)
        hand == g.hands[playerIndex]
        g1 == [g EXCEPT !.hands[playerIndex] = RemoveCard(hand, cardId),
                        !.discardPile = Append(@, cardId)]
        n == Cardinality(DOMAIN g.ids)
        after == [k \in 1..n |-> (g.currentTurn + k) % n]
        next == IF \E k \in 1..n : g.connected[after[k]]
                THEN after[CHOOSE k \in 1..n :
                             /\ g.connected[after[k]]
                             /\ \A j \in 1..(k - 1) : ~g.connected[after[j]]]
                ELSE after[1]
    IN  IF playerIndex = 0 - 1 THEN Rejected(g, ErrPlayerNotFound)
        ELSE IF g.currentTurn # playerIndex THEN Rejected(g, ErrNotYourTurn)
        ELSE IF g.phase # "play" THEN Rejected(g, ErrDrawFirst)
        ELSE IF IndexOf(hand, cardId) = 0 THEN Rejected(g, ErrCardNotInHand)
        ELSE IF checkWin(g1.hands[playerIndex])
            THEN Accepted([g1 EXCEPT !.winner = WinnerRecord(g1, playerId)])
        ELSE Accepted([g1 EXCEPT !.currentTurn = next, !.phase = "draw"])

\* discard(lobbyCode, playerId, cardId)
discard(g, playerId, cardId) ==
    LET playerIndex == findIndex(g, playerId)
        hand == g.hands[playerIndex]
        g1 == [g EXCEPT !.hands[playerIndex] = RemoveCard(hand, cardId),
                        !.discardPile = Append(@, cardId)]
    IN  IF playerIndex = 0 - 1 THEN Rejected(g, ErrPlayerNotFound)
        ELSE IF g.currentTurn # playerIndex THEN Rejected(g, ErrNotYourTurn)
        ELSE IF g.phase # "play" THEN Rejected(g, ErrDrawFirst)
        ELSE IF IndexOf(hand, cardId) = 0 THEN Rejected(g, ErrCardNotInHand)
        ELSE IF checkWin(g1.hands[playerIndex])
            THEN Accepted([g1 EXCEPT !.winner = WinnerRecord(g1, playerId)])
        ELSE Accepted([g1 EXCEPT !.currentTurn = (g.currentTurn + 1) % Cardinality(DOMAIN g.ids),
                                 !.phase = "draw"])

\* endTurn(lobbyCode, playerId): game.players[-1] is undefined, and reading
\* its hand throws
endTurn(g, playerId) ==
    LET playerIndex == findIndex(g, playerId)
    IN  IF playerIndex = 0 - 1 THEN Thrown(g, TypeError)
        ELSE IF checkWin(g.hands[playerIndex])
            THEN Accepted([g EXCEPT !.winner = WinnerRecord(g, playerId)])
        ELSE Rejected(g, ErrMustDiscard)

\* playerDisconnected(lobbyCode, socketId): returns nothing
playerDisconnected(g, socketId) ==
    LET playerIndex == findIndex(g, socketId)
    IN  IF playerIndex = 0 - 1 THEN ReturnedNull(g)
        ELSE ReturnedNull([g EXCEPT !.connected[playerIndex] = FALSE])

\* game.players.find(p => !p.connected && !p.isTestPlayer), as an index
FirstDisconnected(g) ==
    LET away == {i \in DOMAIN g.ids : ~g.connected[i] /\ ~g.isTestPlayer[i]}
    IN  IF away = {} THEN 0 - 1
        ELSE CHOOSE i \in away : \A j \in away : i <= j

\* playerReconnected(lobbyCode, persistentId, newSocketId, oldSocketId = null):
\* returns true or false. persistentId is not read. An oldSocketId that is
\* undefined or null is Undefined here.
playerReconnected(g, persistentId, newSocketId, oldSocketId) ==
    LET byOldId == IF oldSocketId # Undefined THEN findIndex(g, oldSocketId) ELSE 0 - 1
        player == IF byOldId # 0 - 1 THEN byOldId ELSE FirstDisconnected(g)
    IN  IF player # 0 - 1
        THEN Accepted([g EXCEPT !.connected[player] = TRUE, !.ids[player] = newSocketId])
        ELSE Rejected(g, "")

\* getPlayerView that also tells the card on top of the draw pile
getPlayerView_DeckTop(g, playerId) ==
    LET playerIndex == findIndex(g, playerId)
    IN  IF playerIndex = 0 - 1 THEN [null |-> TRUE]
        ELSE [null |-> FALSE,
              myHand |-> g.hands[playerIndex],
              myIndex |-> playerIndex,
              otherPlayers |-> [i \in DOMAIN g.ids |->
                                  [name |-> i,
                                   cardCount |-> Len(g.hands[i]),
                                   isMe |-> i = playerIndex,
                                   connected |-> g.connected[i]]],
              melds |-> g.melds,
              discardTop |-> Pop(g.discardPile),
              discardCount |-> Len(g.discardPile),
              deckCount |-> Len(g.deck),
              deckTop |-> Shift(g.deck),
              currentTurn |-> g.currentTurn,
              currentPlayerName |-> g.currentTurn,
              isMyTurn |-> g.currentTurn = playerIndex,
              phase |-> g.phase,
              winner |-> g.winner]

\* getPlayerView(lobbyCode, playerId): null for an id that holds no seat. A
\* player's name is constant and stands as the seat's index; game.settings is
\* constant and left out.
getPlayerView(g, playerId) ==
    LET playerIndex == findIndex(g, playerId)
    IN  IF playerIndex = 0 - 1 THEN [null |-> TRUE]
        ELSE [null |-> FALSE,
              myHand |-> g.hands[playerIndex],
              myIndex |-> playerIndex,
              otherPlayers |-> [i \in DOMAIN g.ids |->
                                  [name |-> i,
                                   cardCount |-> Len(g.hands[i]),
                                   isMe |-> i = playerIndex,
                                   connected |-> g.connected[i]]],
              melds |-> g.melds,
              discardTop |-> Pop(g.discardPile),
              discardCount |-> Len(g.discardPile),
              deckCount |-> Len(g.deck),
              currentTurn |-> g.currentTurn,
              currentPlayerName |-> g.currentTurn,
              isMyTurn |-> g.currentTurn = playerIndex,
              phase |-> g.phase,
              winner |-> g.winner]

----------------------------------------------------------------------------
(* gameManager.js: the bot decision engine *)

\* The keys of an object filled in array order: first appearances
RECURSIVE FirstAppearances(_)
FirstAppearances(s) ==
    IF s = <<>> THEN <<>>
    ELSE LET d == FirstAppearances(ButLast(s))
         IN  IF s[Len(s)] \in Range(d) THEN d ELSE Append(d, s[Len(s)])

SuitsOf(cards) == [i \in 1..Len(cards) |-> SuitOf(cards[i])]
ValuesOf(cards) == [i \in 1..Len(cards) |-> ValueOf(cards[i])]

\* Object.keys(bySuit): suit names are string keys, kept in insertion order
SuitKeys(cards) == FirstAppearances(SuitsOf(cards))

\* Object.keys(byRank): the integer-like keys '2'..'10' come first in ascending
\* numeric order, then 'A', 'J', 'Q', 'K' in insertion order
IsNumeral(v) == v >= 2 /\ v <= 10
RankKeys(cards) ==
    LET present == Range(ValuesOf(cards))
        numerals == SelectSeq([i \in 1..RanksPerSuit |-> i],
                              LAMBDA v : IsNumeral(v) /\ v \in present)
        letters == SelectSeq(FirstAppearances(ValuesOf(cards)), LAMBDA v : ~IsNumeral(v))
    IN  numerals \o letters

BySuit(cards, suit) == SelectSeq(cards, LAMBDA c : SuitOf(c) = suit)
ByRank(cards, value) == SelectSeq(cards, LAMBDA c : ValueOf(c) = value)
SortedSuit(cards, suit) == SortByKey(BySuit(cards, suit), LowKey(cards))

\* The scan of one sorted suit in findPossibleMelds: maximal runs of 3+
RECURSIVE ScanRuns(_, _, _, _)
ScanRuns(cards, i, run, acc) ==
    LET closed == IF Len(run) >= 3 THEN Append(acc, run) ELSE acc
    IN  IF i > Len(cards) THEN closed
        ELSE IF ValueOf(cards[i]) = ValueOf(run[Len(run)]) + 1
            THEN ScanRuns(cards, i + 1, Append(run, cards[i]), acc)
        ELSE IF ValueOf(cards[i]) # ValueOf(run[Len(run)])
            THEN ScanRuns(cards, i + 1, <<cards[i]>>, closed)
        ELSE ScanRuns(cards, i + 1, run, acc)

RECURSIVE PossibleRuns(_, _)
PossibleRuns(hand, suits) ==
    IF suits = <<>> THEN <<>>
    ELSE LET cards == SortedSuit(hand, Head(suits))
         IN  (IF Len(cards) >= 3 THEN ScanRuns(cards, 2, <<cards[1]>>, <<>>) ELSE <<>>)
             \o PossibleRuns(hand, Tail(suits))

RECURSIVE PossibleSets(_, _)
PossibleSets(hand, ranks) ==
    IF ranks = <<>> THEN <<>>
    ELSE LET cards == ByRank(hand, Head(ranks))
         IN  (IF Len(cards) >= 3 THEN <<Take(cards, Min(4, Len(cards)))>> ELSE <<>>)
             \o PossibleSets(hand, Tail(ranks))

\* findPossibleMelds that pushes the set of every rank twice
findPossibleMelds_SetsTwice(hand) ==
    PossibleRuns(hand, SuitKeys(hand)) \o PossibleSets(hand, RankKeys(hand))
    \o PossibleSets(hand, RankKeys(hand))

\* findPossibleMelds(hand): an array of card arrays
findPossibleMelds(hand) ==
    PossibleRuns(hand, SuitKeys(hand)) \o PossibleSets(hand, RankKeys(hand))

\* canAddToMeld(card, meld): 'start', 'end' or not valid ("none")
canAddToMeld(card, meldCards) ==
    IF isValidMeld(<<card>> \o meldCards) THEN "start"
    ELSE IF isValidMeld(Append(meldCards, card)) THEN "end"
    ELSE "none"

\* isDiscardCardUseful(discardCard, hand, melds)
isDiscardCardUseful(discardCard, hand, ms) ==
    IF discardCard = Undefined THEN FALSE
    ELSE IF \E i \in 1..Len(ms) : canAddToMeld(discardCard, ms[i].cards) # "none" THEN TRUE
    ELSE Len(findPossibleMelds(Append(hand, discardCard))) > Len(findPossibleMelds(hand))

\* The score of a card when table melds are left out of it
DiscardScore_NoTable(card, hand, ms) ==
    LET handWithoutCard == SelectSeq(hand, LAMBDA c : c # card)
        inMeld == Len(findPossibleMelds(hand)) > Len(findPossibleMelds(handWithoutCard))
        sameRank == \E i \in 1..Len(hand) :
                        ValueOf(hand[i]) = ValueOf(card) /\ hand[i] # card
        consecutive == \E i \in 1..Len(hand) :
                        /\ SuitOf(hand[i]) = SuitOf(card) /\ hand[i] # card
                        /\ (ValueOf(hand[i]) - ValueOf(card) = 1 \/
                            ValueOf(card) - ValueOf(hand[i]) = 1)
    IN  ValueOf(card) - (IF inMeld THEN 15 ELSE 0)
        - (IF sameRank THEN 5 ELSE 0) - (IF consecutive THEN 5 ELSE 0)

\* The score findBestDiscard gives one card of the hand
DiscardScore(card, hand, ms) ==
    LET extends == Cardinality({i \in 1..Len(ms) : canAddToMeld(card, ms[i].cards) # "none"})
        handWithoutCard == SelectSeq(hand, LAMBDA c : c # card)
        inMeld == Len(findPossibleMelds(hand)) > Len(findPossibleMelds(handWithoutCard))
        sameRank == \E i \in 1..Len(hand) :
                        ValueOf(hand[i]) = ValueOf(card) /\ hand[i] # card
        consecutive == \E i \in 1..Len(hand) :
                        /\ SuitOf(hand[i]) = SuitOf(card) /\ hand[i] # card
                        /\ (ValueOf(hand[i]) - ValueOf(card) = 1 \/
                            ValueOf(card) - ValueOf(hand[i]) = 1)
    IN  ValueOf(card) - 20 * extends - (IF inMeld THEN 15 ELSE 0)
        - (IF sameRank THEN 5 ELSE 0) - (IF consecutive THEN 5 ELSE 0)

\* findBestDiscard(hand, melds): the first card of the highest score (the sort
\* is stable); Undefined stands for null
findBestDiscard(hand, ms) ==
    IF Len(hand) = 0 THEN Undefined
    ELSE LET best == CHOOSE i \in 1..Len(hand) :
                        /\ \A j \in 1..Len(hand) :
                              DiscardScore(hand[j], hand, ms) <= DiscardScore(hand[i], hand, ms)
                        /\ \A j \in 1..(i - 1) :
                              DiscardScore(hand[j], hand, ms) < DiscardScore(hand[i], hand, ms)
         IN  hand[best]

\* findAllRuns: for every start index of a sorted suit, every prefix of 3+
RECURSIVE RunsFrom(_, _, _, _)
RunsFrom(cards, i, run, acc) ==
    IF i > Len(cards) THEN acc
    ELSE IF ValueOf(cards[i]) = ValueOf(run[Len(run)]) + 1
        THEN RunsFrom(cards, i + 1, Append(run, cards[i]),
                      IF Len(run) + 1 >= 3 THEN Append(acc, Append(run, cards[i])) ELSE acc)
    ELSE IF ValueOf(cards[i]) # ValueOf(run[Len(run)]) THEN acc
    ELSE RunsFrom(cards, i + 1, run, acc)

RECURSIVE RunsOfSuit(_, _)
RunsOfSuit(cards, start) ==
    IF start > Len(cards) THEN <<>>
    ELSE RunsFrom(cards, start + 1, <<cards[start]>>, <<>>) \o RunsOfSuit(cards, start + 1)

RECURSIVE AllRuns(_, _)
AllRuns(cards, suits) ==
    IF suits = <<>> THEN <<>>
    ELSE RunsOfSuit(SortedSuit(cards, Head(suits)), 1) \o AllRuns(cards, Tail(suits))

findAllRuns(cards) == AllRuns(cards, SuitKeys(cards))

RECURSIVE AllSets(_, _)
AllSets(cards, ranks) ==
    IF ranks = <<>> THEN <<>>
    ELSE LET rankCards == ByRank(cards, Head(ranks))
         IN  (IF Len(rankCards) >= 3
              THEN <<Take(rankCards, 3)>> \o
                   (IF Len(rankCards) >= 4 THEN <<Take(rankCards, 4)>> ELSE <<>>)
              ELSE <<>>)
             \o AllSets(cards, Tail(ranks))

findAllSets(cards) == AllSets(cards, RankKeys(cards))

\* The result object of findBestMeldCombination for the melds chosen so far
Combination(currentMelds, requiredCardIds) ==
    [success |-> requiredCardIds \subseteq Range(Flatten(currentMelds)),
     melds |-> currentMelds,
     handCardsUsed |-> Len(SelectSeq(Flatten(currentMelds),
                                     LAMBDA c : c \notin requiredCardIds))]

\* findBestMeldCombination(availableCards, possibleMelds, requiredCardIds,
\* currentMelds, depth) and its for-loop over validMelds
RECURSIVE findBestMeldCombination(_, _, _, _)
RECURSIVE TryEachMeld(_, _, _, _, _, _)
\* findBestMeldCombination that never stops for the depth
findBestMeldCombination_NoDepthLimit(possibleMelds, requiredCardIds, currentMelds, depth) ==
    LET usedIds == Range(Flatten(currentMelds))
        validMelds == SelectSeq(possibleMelds, LAMBDA m : Range(m) \cap usedIds = {})
        here == Combination(currentMelds, requiredCardIds)
    IN  IF Len(validMelds) = 0 THEN here
        ELSE TryEachMeld(possibleMelds, requiredCardIds, currentMelds, depth, validMelds, here)

findBestMeldCombination(possibleMelds, requiredCardIds, currentMelds, depth) ==
    LET usedIds == Range(Flatten(currentMelds))
        validMelds == SelectSeq(possibleMelds, LAMBDA m : Range(m) \cap usedIds = {})
        here == Combination(currentMelds, requiredCardIds)
    IN  IF depth > BotDepthLimit THEN here
        ELSE IF Len(validMelds) = 0 THEN here
        ELSE TryEachMeld(possibleMelds, requiredCardIds, currentMelds, depth, validMelds, here)

TryEachMeld(possibleMelds, requiredCardIds, currentMelds, depth, validMelds, bestResult) ==
    IF validMelds = <<>> THEN bestResult
    ELSE LET res == findBestMeldCombination(possibleMelds, requiredCardIds,
                                            Append(currentMelds, Head(validMelds)), depth + 1)
             better == res.success /\ (~bestResult.success \/
                                       res.handCardsUsed > bestResult.handCardsUsed)
         IN  TryEachMeld(possibleMelds, requiredCardIds, currentMelds, depth,
                         Tail(validMelds), IF better THEN res ELSE bestResult)

\* findValidArrangement(cards, requiredCardIds)
findValidArrangement(cards, requiredCardIds) ==
    LET allMelds == findAllRuns(cards) \o findAllSets(cards)
    IN  IF Len(allMelds) = 0 THEN [success |-> FALSE, melds |-> <<>>, handCardsUsed |-> 0]
        ELSE findBestMeldCombination(allMelds, requiredCardIds, <<>>, 0)

\* tryBotRearrangement without its check that a hand card is left
tryBotRearrangement_NoKeepOne(tableCards, hand, requiredTableCardIds) ==
    LET res == findValidArrangement(tableCards \o hand, requiredTableCardIds)
        usedIds == Range(Flatten(res.melds))
        cardsFromHand == SelectSeq(Flatten(res.melds), LAMBDA c : c \in Range(hand))
        failure == [success |-> FALSE, newMelds |-> <<>>, cardsFromHand |-> <<>>]
    IN  IF ~res.success THEN failure
        ELSE IF ~(requiredTableCardIds \subseteq usedIds) THEN failure
        ELSE IF Len(cardsFromHand) = 0 THEN failure
        ELSE [success |-> TRUE, newMelds |-> res.melds, cardsFromHand |-> cardsFromHand]

\* tryBotRearrangement(tableCards, hand, requiredTableCardIds); the new melds
\* are card arrays here, playBotTurn gives them their ids
tryBotRearrangement(tableCards, hand, requiredTableCardIds) ==
    LET res == findValidArrangement(tableCards \o hand, requiredTableCardIds)
        usedIds == Range(Flatten(res.melds))
        cardsFromHand == SelectSeq(Flatten(res.melds), LAMBDA c : c \in Range(hand))
        remainingHand == SelectSeq(hand, LAMBDA c : c \notin Range(cardsFromHand))
        failure == [success |-> FALSE, newMelds |-> <<>>, cardsFromHand |-> <<>>]
    IN  IF ~res.success THEN failure
        ELSE IF ~(requiredTableCardIds \subseteq usedIds) THEN failure
        ELSE IF Len(cardsFromHand) = 0 THEN failure
        ELSE IF Len(remainingHand) = 0 THEN failure
        ELSE [success |-> TRUE, newMelds |-> res.melds, cardsFromHand |-> cardsFromHand]
\* playBotTurn, the draw: FALSE for ok is the early return 'No cards left'
BotDraw(g, reshuffled) ==
    LET cur == g.currentTurn
        discardTop == Pop(g.discardPile)
        shouldTakeDiscard == discardTop # Undefined /\
                             isDiscardCardUseful(discardTop, g.hands[cur], g.melds)
        refill == Len(g.deck) = 0
        deck1 == IF refill THEN reshuffled ELSE g.deck
        discard1 == IF refill THEN <<Pop(g.discardPile)>> ELSE g.discardPile
    IN  IF shouldTakeDiscard /\ Len(g.discardPile) > 0
        THEN [ok |-> TRUE,
              game |-> [g EXCEPT !.discardPile = ButLast(@),
                                 !.hands[cur] = Append(@, discardTop),
                                 !.phase = "play"]]
        ELSE IF refill /\ Len(g.discardPile) <= 1 THEN [ok |-> FALSE, game |-> g]
        ELSE [ok |-> TRUE,
              game |-> [g EXCEPT !.deck = Drop(deck1, 1),
                                 !.discardPile = discard1,
                                 !.hands[cur] = Append(@, Shift(deck1)),
                                 !.phase = "play"]]

\* playBotTurn, strategy 1: full table rearrangement
BotRearrange(g, freshId) ==
    LET cur == g.currentTurn
        tableCards == TableCards(g.melds)
        rr == tryBotRearrangement(tableCards, g.hands[cur], Range(tableCards))
    IN  IF Len(g.melds) > 0 /\ Len(g.hands[cur]) > 1 /\ rr.success /\ Len(rr.cardsFromHand) > 0
        THEN [game |-> [g EXCEPT
                  !.melds = [i \in 1..Len(rr.newMelds) |->
                                [id |-> freshId + i - 1, cards |-> rr.newMelds[i]]],
                  !.hands[cur] = RemoveCards(@, rr.cardsFromHand)],
              freshId |-> freshId + Len(rr.newMelds)]
        ELSE [game |-> g, freshId |-> freshId]

\* playBotTurn, strategy 2: single cards onto table melds, first fit first
RECURSIVE BotAdditions(_)
BotAdditions(g) ==
    LET cur == g.currentTurn
        hand == g.hands[cur]
        fits == {p \in (1..Len(g.melds)) \X (1..Len(hand)) :
                    canAddToMeld(hand[p[2]], g.melds[p[1]].cards) # "none"}
        first == CHOOSE p \in fits :
                    \A q \in fits : p[1] < q[1] \/ (p[1] = q[1] /\ p[2] <= q[2])
        card == hand[first[2]]
        cards == g.melds[first[1]].cards
    IN  IF Len(hand) <= 1 \/ fits = {} THEN g
        ELSE BotAdditions([g EXCEPT
                !.melds[first[1]].cards =
                    IF canAddToMeld(card, cards) = "start" THEN <<card>> \o cards
                    ELSE Append(cards, card),
                !.hands[cur] = RemoveAt(hand, first[2])])

\* playBotTurn, strategy 3: the melds found in the hand before the loop
RECURSIVE BotNewMelds(_, _, _)
BotNewMelds(g, possibleMelds, freshId) ==
    LET cur == g.currentTurn
        meldCards == Head(possibleMelds)
    IN  IF possibleMelds = <<>> THEN [game |-> g, freshId |-> freshId]
        ELSE IF Len(g.hands[cur]) - Len(meldCards) = 0
            THEN BotNewMelds(g, Tail(possibleMelds), freshId)
        ELSE IF isValidMeld(meldCards)
            THEN BotNewMelds([g EXCEPT
                                !.hands[cur] = RemoveCards(@, meldCards),
                                !.melds = Append(@, [id |-> freshId, cards |-> meldCards])],
                             Tail(possibleMelds), freshId + 1)
        ELSE BotNewMelds(g, Tail(possibleMelds), freshId)

\* playBotTurn, after the melding: win check, discard, win check, next turn
BotFinish(g) ==
    LET cur == g.currentTurn
        hand == g.hands[cur]
        discardCard == findBestDiscard(hand, g.melds)
        g1 == [g EXCEPT !.hands[cur] = RemoveCard(hand, discardCard),
                        !.discardPile = Append(@, discardCard)]
    IN  IF checkWin(hand) THEN [g EXCEPT !.winner = WinnerRecord(g, g.ids[cur])]
        ELSE IF checkWin(g1.hands[cur]) THEN [g1 EXCEPT !.winner = WinnerRecord(g1, g.ids[cur])]
        ELSE [g1 EXCEPT !.currentTurn = (g.currentTurn + 1) % Cardinality(DOMAIN g.ids),
                        !.phase = "draw"]

\* playBotTurn(lobbyCode)
playBotTurn(g, reshuffled, freshId) ==
    LET drawn == IF g.phase = "draw" THEN BotDraw(g, reshuffled) ELSE [ok |-> TRUE, game |-> g]
        rearranged == BotRearrange(drawn.game, freshId)
        added == BotAdditions(rearranged.game)
        melded == BotNewMelds(added, findPossibleMelds(added.hands[g.currentTurn]),
                              rearranged.freshId)
    IN  IF g.winner.set THEN ReturnedNull(g)
        ELSE IF ~g.isTestPlayer[g.currentTurn] THEN ReturnedNull(g)
        ELSE IF ~drawn.ok THEN Rejected(g, ErrNoCardsLeft)
        ELSE Accepted(BotFinish(melded.game))

----------------------------------------------------------------------------
(* The calls the transport layer makes, and their arguments *)

CurrentHand == game.hands[game.currentTurn]

\* Sockets that can send an event: those of the lobby's connected human
\* players and one outsider
Actors ==
    {lobby.ids[i] : i \in {s \in DOMAIN lobby.ids : ~game.isTestPlayer[s] /\ lobby.connected[s]}}
    \cup {Stranger}

\* Card ids a request names: the first MaxNamed cards of the hand in turn and
\* one id that is not in it (the top discard, or an id of no card when there
\* is none)
NamedCards == Range(Take(CurrentHand, MaxNamed)) \cup {Pop(game.discardPile)}

\* Arguments matter only to the seat in turn during its play phase: every
\* other caller is turned away before its arguments are read, so one payload
\* stands for all of them
Reads(actor) == actor = game.ids[game.currentTurn] /\ game.phase = "play"
Payloads(actor, all) == IF Reads(actor) THEN all ELSE {CHOOSE x \in all : TRUE}

Triples == {s \in [1..3 -> NamedCards] : s[1] < s[2] /\ s[2] < s[3]}
Repeats == {[i \in 1..3 |-> c] : c \in Range(Take(CurrentHand, 1)) \cup {Pop(game.discardPile)}}

\* cardIds payloads of playMeld: three or four distinct ids in ascending
\* order, or one id three times (the first card of the hand, the top discard)
CardIdLists ==
    Triples \cup Repeats \cup
    {s \in [1..4 -> NamedCards] : s[1] < s[2] /\ s[2] < s[3] /\ s[3] < s[4]}

MeldIds == {game.melds[i].id : i \in 1..Len(game.melds)} \cup {nextMeldId}

\* proposedMelds payloads of rearrangeTable, as edits of the current table:
\* unchanged; a card added to a meld; a new meld (of three cards, of one card
\* three times, of two cards, of none); a meld or a meld's last card left
\* out; a card moved between melds; a meld replaced by a new one
NewMeldLists == Triples \cup Repeats \cup {Take(CurrentHand, 2), <<>>}

WithoutMeld(ms, m) == SubSeq(ms, 1, m - 1) \o SubSeq(ms, m + 1, Len(ms))

ProposedTables ==
    LET T == game.melds
        M == 1..Len(T)
    IN  {T}
        \cup {[T EXCEPT ![m].cards = Append(@, c)] : m \in M, c \in NamedCards}
        \cup {Append(T, [id |-> nextMeldId, cards |-> s]) : s \in NewMeldLists}
        \cup {WithoutMeld(T, m) : m \in M}
        \cup {[T EXCEPT ![m].cards = ButLast(@)] : m \in M}
        \cup {[T EXCEPT ![p[1]].cards = ButLast(@),
                        ![p[2]].cards = Append(@, Pop(T[p[1]].cards))] :
                p \in {q \in M \X M : q[1] # q[2]}}
        \cup {Append(WithoutMeld(T, m), [id |-> nextMeldId, cards |-> s]) :
                m \in M, s \in Triples}

\* The hand cards a proposal puts on the table
AddedFromHand(proposedMelds) ==
    SelectSeq(CurrentHand, LAMBDA c : c \in Range(TableCards(proposedMelds))
                                      /\ c \notin Range(TableCards(game.melds)))

\* cardsFromHand payloads: the hand cards the proposal adds, nothing, the
\* whole hand, or the whole hand and an id that is not in it
CardsFromHandLists(proposedMelds) ==
    {AddedFromHand(proposedMelds), <<>>, CurrentHand, Append(CurrentHand, Undefined)}

\* The next fresh meld id: ids are never reused
FreshAfter(g) ==
    LET used == {g.melds[i].id : i \in 1..Len(g.melds)}
    IN  IF \E id \in used : id >= nextMeldId
        THEN 1 + CHOOSE id \in used : \A other \in used : other <= id
        ELSE nextMeldId

\* A call that is not accepted and leaves the match as it was is followed by
\* exactly the calls that could have been made in its place; they are explored
\* from there. MaxSteps bounds the calls of a behaviour that are accepted or
\* change the match. A behaviour is not followed beyond a state in which a
\* hand holds undefined in place of a card.
Ready ==
    /\ steps < MaxSteps
    /\ result.ret = "ok" \/ result.changed
    /\ \A s \in DOMAIN game.hands : Undefined \notin Range(game.hands[s])

Returns(op, actor, out) ==
    /\ game' = out.game
    /\ nextMeldId' = FreshAfter(out.game)
    /\ result' = [op |-> op, actor |-> actor, ret |-> out.ret, error |-> out.error,
                  changed |-> out.game # game]
    /\ steps' = IF out.ret = "ok" \/ out.game # game THEN steps + 1 ELSE steps

\* A game event: the lobby's roster is left alone
Call(op, actor, out) == Returns(op, actor, out) /\ UNCHANGED lobby

\* lobbyManager.playerDisconnected(socketId)
lobbyDisconnected(l, socketId) ==
    [l EXCEPT !.connected = [i \in DOMAIN l.ids |->
                                IF i = findIndex(l, socketId) THEN FALSE ELSE @[i]]]

\* gameManager.initGame receives lobby.players: the rosters coincide
lobbyOf(g) == [ids |-> g.ids, connected |-> g.connected]

Reshuffles == shuffle(ButLast(game.discardPile))

DrawCard ==
    /\ Ready
    /\ \E actor \in Actors, source \in {"deck", "discard", "table"}, reshuffled \in Reshuffles :
        Call("drawCard", actor, drawCard(game, actor, source, reshuffled))

PlayMeld ==
    /\ Ready
    /\ \E actor \in Actors :
        \E cardIds \in Payloads(actor, CardIdLists) :
            Call("playMeld", actor, playMeld(game, actor, cardIds, nextMeldId))

AddToMeld ==
    /\ Ready
    /\ \E actor \in Actors :
        \E args \in Payloads(actor, NamedCards \X MeldIds \X {"start", "end"}) :
            Call("addToMeld", actor, addToMeld(game, actor, args[1], args[2], args[3]))

RearrangeTable ==
    /\ Ready
    /\ \E actor \in Actors :
        \E proposedMelds \in Payloads(actor, ProposedTables) :
            \E cardsFromHand \in Payloads(actor, CardsFromHandLists(proposedMelds)) :
                Call("rearrangeTable", actor,
                     rearrangeTable(game, actor, proposedMelds, cardsFromHand))

Discard ==
    /\ Ready
    /\ \E actor \in Actors :
        \E cardId \in Payloads(actor, NamedCards) :
            Call("discard", actor, discard(game, actor, cardId))

EndTurn ==
    /\ Ready
    /\ \E actor \in Actors : Call("endTurn", actor, endTurn(game, actor))

\* processBotTurns calls playBotTurn from a timer; playBotTurn itself checks
\* for a winner and for a bot in turn
PlayBotTurn ==
    /\ Ready
    /\ \E reshuffled \in Reshuffles :
        Call("playBotTurn", Stranger, playBotTurn(game, reshuffled, nextMeldId))

\* The socket's 'disconnect' event of a playing lobby
PlayerDisconnected ==
    /\ Ready
    /\ \E socketId \in Actors :
        /\ Returns("playerDisconnected", socketId, playerDisconnected(game, socketId))
        /\ lobby' = lobbyDisconnected(lobby, socketId)

Rosters == {b \in [Seats -> BOOLEAN] : ~b[0]}

Init ==
    /\ \E bots \in Rosters, shuffled \in shuffle(createMultipleDecks(NumDecks)),
          firstPlayerIndex \in Seats :
            game = initGame(bots, shuffled, firstPlayerIndex)
    /\ lobby = lobbyOf(game)
    /\ nextMeldId = 1
    /\ result = [op |-> "initGame", actor |-> Stranger, ret |-> "ok", error |-> "",
                 changed |-> TRUE]
    /\ steps = 0

Next ==
    \/ DrawCard
    \/ PlayMeld
    \/ AddToMeld
    \/ RearrangeTable
    \/ Discard
    \/ EndTurn
    \/ PlayBotTurn
    \/ PlayerDisconnected

Spec == Init /\ [][Next]_vars

\* A roster the pool cannot serve, with one seat dealt a short hand and one
\* dealt none: the lobby admits up to maxPlayers (10) players whatever
\* numDecks is, and startGame only asks for two or more (7 players with one
\* deck of 52 and hands of 10)
CrowdedPlayers == (Len(createMultipleDecks(NumDecks)) \div CardsPerPlayer) + 2

CrowdedRosters == {b \in [0..(CrowdedPlayers - 1) -> BOOLEAN] : ~b[0]}

InitCrowded ==
    /\ \E bots \in CrowdedRosters, shuffled \in shuffle(createMultipleDecks(NumDecks)),
          firstPlayerIndex \in 0..(CrowdedPlayers - 1) :
            game = initGame(bots, shuffled, firstPlayerIndex)
    /\ lobby = lobbyOf(game)
    /\ nextMeldId = 1
    /\ result = [op |-> "initGame", actor |-> Stranger, ret |-> "ok", error |-> "",
                 changed |-> TRUE]
    /\ steps = 0

SpecCrowded == InitCrowded /\ [][Next]_vars

----------------------------------------------------------------------------
(* Reconnection to a running match *)

\* lobbyManager.reconnectPlayer(socket, lobbyCode, playerId) of an existing
\* lobby: a player's persistent id (odId) stands as the index of its lobby
\* seat. The object returned is { success, lobby, player }: its oldSocketId
\* is undefined.
reconnectPlayer(l, playerId, socketId) ==
    [lobby |-> [l EXCEPT !.ids[playerId] = socketId, !.connected[playerId] = TRUE],
     oldSocketId |-> Undefined]

\* A socket id that no socket has had
NewSocketId ==
    LET used == {game.ids[i] : i \in DOMAIN game.ids}
                \cup {lobby.ids[i] : i \in DOMAIN lobby.ids}
    IN  1 + CHOOSE id \in used : \A other \in used : other <= id

\* socket.on('game:reconnect') of a playing lobby, sent from a new socket by
\* a human player whose socket is gone. The handler answers success whatever
\* playerReconnected returns.
PlayerReconnected ==
    /\ Ready
    /\ \E playerId \in DOMAIN lobby.ids :
        /\ ~game.isTestPlayer[playerId]
        /\ ~lobby.connected[playerId]
        /\ LET reconnected == reconnectPlayer(lobby, playerId, NewSocketId)
               out == playerReconnected(game, playerId, NewSocketId,
                                        reconnected.oldSocketId)
           IN  /\ lobby' = reconnected.lobby
               /\ game' = out.game
               /\ nextMeldId' = nextMeldId
               /\ result' = [op |-> "playerReconnected", actor |-> NewSocketId,
                             ret |-> "ok", error |-> "", changed |-> out.game # game]
               /\ steps' = steps + 1

NextReconnect ==
    \/ DrawCard
    \/ PlayMeld
    \/ AddToMeld
    \/ RearrangeTable
    \/ Discard
    \/ EndTurn
    \/ PlayBotTurn
    \/ PlayerDisconnected
    \/ PlayerReconnected

SpecReconnect == Init /\ [][NextReconnect]_vars

----------------------------------------------------------------------------
(* The registry of matches: this.games, a Map from lobby code to gameState *)

Codes == {"AAAA", "BBBB"}

\* The codes a call can name: those of the lobbies and one of no lobby
AddressedCodes == Codes \cup {"ZZZZ"}

\* A code without a match: this.games.get(lobbyCode) is undefined
NoGame == [lobbyCode |-> "undefined"]

ErrGameNotFound == "Game not found"

\* A write that reaches every match of the registry
store_Shared(games, lobbyCode, g) ==
    [c \in DOMAIN games |-> IF games[c] = NoGame /\ c # lobbyCode THEN NoGame ELSE g]

\* this.games.get(lobbyCode)
lookup(games, lobbyCode) ==
    IF lobbyCode \in DOMAIN games THEN games[lobbyCode] ELSE NoGame

\* this.games.set(lobbyCode, gameState), and the writes a handler makes to the
\* gameState object it got from the registry
store(games, lobbyCode, g) ==
    IF lobbyCode \in DOMAIN games THEN [games EXCEPT ![lobbyCode] = g] ELSE games

\* The calls a socket can make on a match, as in Actors, NamedCards,
\* CardIdLists, MeldIds and ProposedTables
RegActors(g) ==
    {g.ids[i] : i \in {s \in DOMAIN g.ids : ~g.isTestPlayer[s] /\ g.connected[s]}}
    \cup {Stranger}

RegNamedCards(g) == Range(Take(g.hands[g.currentTurn], MaxNamed)) \cup {Pop(g.discardPile)}

RegCardIdLists(g) == {s \in [1..3 -> RegNamedCards(g)] : s[1] < s[2] /\ s[2] < s[3]}

RegMeldIds(g) == {g.melds[i].id : i \in 1..Len(g.melds)} \cup {nextMeldId}

RegProposedTables(g) ==
    {g.melds}
    \cup {[g.melds EXCEPT ![m].cards = Append(@, c)] :
            m \in 1..Len(g.melds), c \in RegNamedCards(g)}
    \cup {Append(g.melds, [id |-> nextMeldId, cards |-> s]) : s \in RegCardIdLists(g)}

RegCardsFromHand(g, proposedMelds) ==
    {SelectSeq(g.hands[g.currentTurn], LAMBDA c : c \in Range(TableCards(proposedMelds))
                                      /\ c \notin Range(TableCards(g.melds))),
     <<>>}

RegFreshAfter(games) ==
    LET used == UNION {{games[c].melds[i].id : i \in 1..Len(games[c].melds)} :
                        c \in {d \in DOMAIN games : games[d] # NoGame}}
    IN  IF \E id \in used : id >= nextMeldId
        THEN 1 + CHOOSE id \in used : \A other \in used : other <= id
        ELSE nextMeldId

RegReady ==
    /\ steps < MaxRegistrySteps
    /\ result.ret = "ok" \/ result.changed

\* What a registry call leaves: the handler's writes go to the gameState
\* object that get(lobbyCode) returned
RegReturns(op, lobbyCode, actor, out) ==
    LET games == IF lookup(game, lobbyCode) = NoGame THEN game
                 ELSE store(game, lobbyCode, out.game)
    IN  /\ game' = games
        /\ nextMeldId' = RegFreshAfter(games)
        /\ result' = [op |-> op, code |-> lobbyCode, actor |-> actor, ret |-> out.ret,
                      error |-> out.error, changed |-> games # game]
        /\ steps' = IF out.ret = "ok" \/ games # game THEN steps + 1 ELSE steps
        /\ UNCHANGED lobby

\* if (!game) return { success: false, error: 'Game not found' }, and for
\* playBotTurn and playerDisconnected: if (!game) return
NotFound(op) ==
    IF op \in {"playBotTurn", "playerDisconnected"} THEN ReturnedNull(NoGame)
    ELSE Rejected(NoGame, ErrGameNotFound)

\* socket.on('game:start'): a lobby starts its match once
RegInitGame ==
    /\ RegReady
    /\ \E lobbyCode \in Codes :
        /\ lookup(game, lobbyCode) = NoGame
        /\ \E bots \in Rosters, shuffled \in shuffle(createMultipleDecks(NumDecks)),
              firstPlayerIndex \in Seats :
                /\ game' = store(game, lobbyCode, initGame(bots, shuffled, firstPlayerIndex))
                /\ result' = [op |-> "initGame", code |-> lobbyCode, actor |-> Stranger,
                              ret |-> "ok", error |-> "", changed |-> TRUE]
                /\ steps' = steps + 1
                /\ UNCHANGED <<lobby, nextMeldId>>

RegDrawCard ==
    /\ RegReady
    /\ \E lobbyCode \in AddressedCodes :
        LET g == lookup(game, lobbyCode)
        IN  IF g = NoGame THEN RegReturns("drawCard", lobbyCode, Stranger, NotFound("drawCard"))
            ELSE \E actor \in RegActors(g), source \in {"deck", "discard"},
                    reshuffled \in shuffle(ButLast(g.discardPile)) :
                    RegReturns("drawCard", lobbyCode, actor,
                               drawCard(g, actor, source, reshuffled))

RegPlayMeld ==
    /\ RegReady
    /\ \E lobbyCode \in AddressedCodes :
        LET g == lookup(game, lobbyCode)
        IN  IF g = NoGame THEN RegReturns("playMeld", lobbyCode, Stranger, NotFound("playMeld"))
            ELSE \E actor \in RegActors(g), cardIds \in RegCardIdLists(g) :
                    RegReturns("playMeld", lobbyCode, actor,
                               playMeld(g, actor, cardIds, nextMeldId))

RegAddToMeld ==
    /\ RegReady
    /\ \E lobbyCode \in AddressedCodes :
        LET g == lookup(game, lobbyCode)
        IN  IF g = NoGame THEN RegReturns("addToMeld", lobbyCode, Stranger, NotFound("addToMeld"))
            ELSE \E actor \in RegActors(g), cardId \in RegNamedCards(g),
                    meldId \in RegMeldIds(g), position \in {"start", "end"} :
                    RegReturns("addToMeld", lobbyCode, actor,
                               addToMeld(g, actor, cardId, meldId, position))

RegRearrangeTable ==
    /\ RegReady
    /\ \E lobbyCode \in AddressedCodes :
        LET g == lookup(game, lobbyCode)
        IN  IF g = NoGame
            THEN RegReturns("rearrangeTable", lobbyCode, Stranger, NotFound("rearrangeTable"))
            ELSE \E actor \in RegActors(g), proposedMelds \in RegProposedTables(g) :
                    \E cardsFromHand \in RegCardsFromHand(g, proposedMelds) :
                        RegReturns("rearrangeTable", lobbyCode, actor,
                                   rearrangeTable(g, actor, proposedMelds, cardsFromHand))

RegDiscard ==
    /\ RegReady
    /\ \E lobbyCode \in AddressedCodes :
        LET g == lookup(game, lobbyCode)
        IN  IF g = NoGame THEN RegReturns("discard", lobbyCode, Stranger, NotFound("discard"))
            ELSE \E actor \in RegActors(g), cardId \in RegNamedCards(g) :
                    RegReturns("discard", lobbyCode, actor, discard(g, actor, cardId))

RegEndTurn ==
    /\ RegReady
    /\ \E lobbyCode \in AddressedCodes :
        LET g == lookup(game, lobbyCode)
        IN  IF g = NoGame THEN RegReturns("endTurn", lobbyCode, Stranger, NotFound("endTurn"))
            ELSE \E actor \in RegActors(g) :
                    RegReturns("endTurn", lobbyCode, actor, endTurn(g, actor))

RegPlayBotTurn ==
    /\ RegReady
    /\ \E lobbyCode \in AddressedCodes :
        LET g == lookup(game, lobbyCode)
        IN  IF g = NoGame THEN RegReturns("playBotTurn", lobbyCode, Stranger, NotFound("playBotTurn"))
            ELSE \E reshuffled \in shuffle(ButLast(g.discardPile)) :
                    RegReturns("playBotTurn", lobbyCode, Stranger,
                               playBotTurn(g, reshuffled, nextMeldId))

RegPlayerDisconnected ==
    /\ RegReady
    /\ \E lobbyCode \in AddressedCodes :
        LET g == lookup(game, lobbyCode)
        IN  IF g = NoGame
            THEN RegReturns("playerDisconnected", lobbyCode, Stranger, NotFound("playerDisconnected"))
            ELSE \E socketId \in RegActors(g) :
                    RegReturns("playerDisconnected", lobbyCode, socketId,
                               playerDisconnected(g, socketId))

\* constructor(io): this.games = new Map()
InitRegistry ==
    /\ game = [c \in Codes |-> NoGame]
    /\ lobby = <<>>
    /\ nextMeldId = 1
    /\ result = [op |-> "constructor", code |-> "", actor |-> Stranger, ret |-> "ok",
                 error |-> "", changed |-> TRUE]
    /\ steps = 0

NextRegistry ==
    \/ RegInitGame
    \/ RegDrawCard
    \/ RegPlayMeld
    \/ RegAddToMeld
    \/ RegRearrangeTable
    \/ RegDiscard
    \/ RegEndTurn
    \/ RegPlayBotTurn
    \/ RegPlayerDisconnected

SpecRegistry == InitRegistry /\ [][NextRegistry]_vars

----------------------------------------------------------------------------
(* Properties *)

\* The operations a player's socket can ask for, and those that put cards on
\* the table
PlayerOps == {"drawCard", "playMeld", "addToMeld", "rearrangeTable", "discard", "endTurn"}
MeldOps == {"playMeld", "addToMeld", "rearrangeTable"}

\* The seat that made the last call (-1: none), and the seat in turn
ActorSeat == findIndex(game, result.actor)
CurrentId == game.ids[game.currentTurn]

\* How often a card id occurs in the hands, the draw pile, the discard pile
\* and the table melds together
Occurrences(g, c) ==
    LET everywhere == Flatten([i \in 1..NumPlayers |-> g.hands[i - 1]])
                      \o g.deck \o g.discardPile \o TableCards(g.melds)
    IN  Cardinality({i \in 1..Len(everywhere) : everywhere[i] = c})

\* C1: in every reachable state every card id of the initial pool occurs
\* exactly once across the hands, the draw pile, the discard pile and the
\* table melds.
C1_CardConservation == \A c \in Pool : Occurrences(game, c) = 1

\* C2: every meld on the table has at least 3 cards and is a legal run or a
\* legal set, in the initial state and after every operation.
C2_TableMeldsLegal ==
    \A i \in 1..Len(game.melds) :
        Len(game.melds[i].cards) >= 3 /\ isValidMeld(game.melds[i].cards)

\* C2 witness: a rearrangement was accepted and left a meld of four or more
\* cards on the table.
C2_Witness ==
    /\ result.op = "rearrangeTable" /\ result.ret = "ok" /\ result.changed
    /\ \E i \in 1..Len(game.melds) : Len(game.melds[i].cards) >= 4

\* C3: a call of drawCard, playMeld, addToMeld, rearrangeTable, discard or
\* endTurn by a seated player who does not hold the turn fails with
\* 'Not your turn' and leaves the match unchanged.
C3_TurnOwnership ==
    [][(/\ result'.op \in PlayerOps
        /\ findIndex(game, result'.actor) # 0 - 1
        /\ findIndex(game, result'.actor) # game.currentTurn)
       => (result'.ret = "fail" /\ result'.error = ErrNotYourTurn /\ game' = game)]_vars

\* C4: the player in turn cannot draw in the play phase ('Already drew a card
\* this turn', nothing changes) and cannot meld, rearrange or discard in the
\* draw phase ('Draw a card first', nothing changes); the phase goes from draw
\* to play only by an accepted draw of the same turn, stays play through
\* accepted meld operations, and goes back to draw, with the turn moving on,
\* only by an accepted discard; a bot's turn starts in the draw phase and ends
\* with the turn passed on in the draw phase, or with a winner.
C4_PhaseGating ==
    [][LET op == result'.op
           byCurrent == result'.actor = CurrentId
           accepted == result'.ret = "ok"
       IN  /\ (op = "drawCard" /\ byCurrent /\ game.phase = "play")
                => (result'.ret = "fail" /\ result'.error = ErrAlreadyDrew /\ game' = game)
           /\ (op \in MeldOps \cup {"discard"} /\ byCurrent /\ game.phase = "draw")
                => (result'.ret = "fail" /\ result'.error = ErrDrawFirst /\ game' = game)
           /\ (op = "drawCard" /\ accepted)
                => (/\ byCurrent /\ game.phase = "draw" /\ game'.phase = "play"
                    /\ game'.currentTurn = game.currentTurn)
           /\ (op \in MeldOps /\ accepted)
                => (/\ byCurrent /\ game.phase = "play" /\ game'.phase = "play"
                    /\ game'.currentTurn = game.currentTurn)
           /\ (op = "discard" /\ accepted)
                => (/\ byCurrent /\ game.phase = "play"
                    /\ \/ game'.winner.set /\ game'.currentTurn = game.currentTurn
                       \/ game'.phase = "draw" /\ game'.currentTurn # game.currentTurn)
           /\ (op = "playBotTurn" /\ accepted)
                => (/\ game.phase = "draw"
                    /\ \/ game'.winner.set /\ game'.currentTurn = game.currentTurn
                       \/ game'.phase = "draw" /\ game'.currentTurn # game.currentTurn)
           /\ (game'.phase # game.phase \/ game'.currentTurn # game.currentTurn)
                => (accepted /\ op \in {"drawCard", "discard", "playBotTurn"})
      ]_vars

\* C4 witness: the player in turn asked for a second draw and was told
\* 'Already drew a card this turn'.
C4_Witness ==
    /\ result.op = "drawCard" /\ result.ret = "fail" /\ result.error = ErrAlreadyDrew
    /\ result.actor = CurrentId /\ game.phase = "play"

\* C5: after an accepted playMeld, addToMeld or rearrangeTable the acting
\* player's hand still holds at least one card.
C5_HandKeepsOneCard ==
    (result.op \in MeldOps /\ result.ret = "ok") => Len(game.hands[ActorSeat]) >= 1

\* What the win freezes
Frozen(g) == <<g.hands, g.deck, g.discardPile, g.melds, g.currentTurn, g.phase, g.winner>>

\* C6: once the winner record is set, no drawCard, playMeld, addToMeld,
\* rearrangeTable, discard, endTurn or playBotTurn is accepted, and hands,
\* piles, table, currentTurn, phase and winner record do not change.
C6_WinFreezes ==
    [][(game.winner.set /\ result'.op \in PlayerOps \cup {"playBotTurn"})
       => (result'.ret # "ok" /\ Frozen(game') = Frozen(game))]_vars

\* C7: no call throws, and a call that returns a failure leaves the match as
\* it was; calls naming a player id that is not in the match included.
C7_RejectionAtomic ==
    /\ result.ret # "throw"
    /\ result.ret = "fail" => ~result.changed

\* A proposal leaves out a card id that is on the table
Omits(proposedMelds) ==
    \E id \in Range(TableCards(game.melds)) : id \notin Range(TableCards(proposedMelds))

\* C8: in every reachable state, a rearrangeTable request of the player in
\* turn, in the play phase, whose proposed table omits a card id of the current
\* table is rejected with 'Cannot remove cards from the table back to hand',
\* whatever the other proposed melds and the cardsFromHand payload are, and
\* the table, the hands and the rest of the match are left unchanged.
C8_OmissionRejected ==
    Reads(CurrentId) =>
        \A proposedMelds \in ProposedTables :
            \A cardsFromHand \in CardsFromHandLists(proposedMelds) :
                Omits(proposedMelds) =>
                    LET out == rearrangeTable(game, CurrentId, proposedMelds, cardsFromHand)
                    IN  /\ out.ret = "fail" /\ out.error = ErrRemoved
                        /\ out.game.melds = game.melds /\ out.game.hands = game.hands
                        /\ out.game = game

\* C8 witness: a rearrangement that left out a table card was rejected.
C8_Witness ==
    /\ result.op = "rearrangeTable" /\ result.ret = "fail" /\ result.error = ErrRemoved
    /\ Len(game.melds) >= 1 /\ ~result.changed

\* The four rules of a rearrangement, as the specification states them
RuleA(currentMelds, proposedMelds) ==
    \A id \in Range(TableCards(currentMelds)) : id \in Range(TableCards(proposedMelds))
RuleB(currentMelds, proposedMelds, playerHand) ==
    \A id \in Range(TableCards(proposedMelds)) \ Range(TableCards(currentMelds)) :
        id \in Range(playerHand)
RuleC(proposedMelds) ==
    \A i \in 1..Len(proposedMelds) :
        Len(proposedMelds[i].cards) >= 1 => isValidMeld(proposedMelds[i].cards)
RuleD(proposedMelds) ==
    \A i \in 1..Len(proposedMelds) : Len(proposedMelds[i].cards) \notin {1, 2}

FirstViolated(currentMelds, proposedMelds, playerHand) ==
    IF ~RuleA(currentMelds, proposedMelds) THEN ErrRemoved
    ELSE IF ~RuleB(currentMelds, proposedMelds, playerHand) THEN ErrNotFromHand
    ELSE IF ~RuleC(proposedMelds) THEN ErrMeldInvalid
    ELSE IF ~RuleD(proposedMelds) THEN ErrMeldTooSmall
    ELSE ""

\* C9: for the table and the hand in turn of every reachable state and every
\* proposed table, validateRearrangement succeeds exactly when rules (a), (b),
\* (c) and (d) all hold, and otherwise fails with the reason of the first
\* violated rule in that order.
C9_ValidateRearrangement ==
    \A proposedMelds \in ProposedTables :
        LET validation == validateRearrangement(game.melds, proposedMelds, CurrentHand)
            rulesHold == /\ RuleA(game.melds, proposedMelds)
                         /\ RuleB(game.melds, proposedMelds, CurrentHand)
                         /\ RuleC(proposedMelds)
                         /\ RuleD(proposedMelds)
        IN  /\ validation.valid <=> rulesHold
            /\ validation.error = FirstViolated(game.melds, proposedMelds, CurrentHand)

\* C9 witness: a rearrangement of a non-empty table was turned down because a
\* new card was not the player's, after rule (a) had passed.
C9_Witness ==
    /\ result.op = "rearrangeTable" /\ result.ret = "fail"
    /\ result.error = ErrNotFromHand /\ Len(game.melds) >= 1

\* C10: a discard by the player in turn, in the play phase, of a card of the
\* hand removes one occurrence of that card from the hand and puts it on top
\* of the discard pile, leaving the other hands, the draw pile and the table
\* alone; with cards left in the hand the turn passes to seat
\* (currentTurn + 1) mod numPlayers, connected or not, in phase draw and with
\* no winner; with none left the acting player is the winner and currentTurn
\* stays.
C10_Discard ==
    [][(result'.op = "discard" /\ Reads(result'.actor)) =>
        \A cardId \in NamedCards :
            (/\ cardId \in Range(CurrentHand)
             /\ Call("discard", result'.actor, discard(game, result'.actor, cardId)))
            => LET cur == game.currentTurn
                   hand == game.hands[cur]
               IN  /\ result'.ret = "ok"
                   /\ \E i \in 1..Len(hand) :
                        hand[i] = cardId /\ game'.hands[cur] = RemoveAt(hand, i)
                   /\ \A s \in Seats \ {cur} : game'.hands[s] = game.hands[s]
                   /\ game'.discardPile = Append(game.discardPile, cardId)
                   /\ game'.deck = game.deck /\ game'.melds = game.melds
                   /\ IF Len(hand) > 1
                      THEN /\ game'.currentTurn = (cur + 1) % NumPlayers
                           /\ game'.phase = "draw"
                           /\ game'.winner = game.winner
                      ELSE /\ game'.winner.set
                           /\ game'.winner.playerId = result'.actor
                           /\ game'.currentTurn = cur
      ]_vars

\* C10 witness: an accepted discard passed the turn to a disconnected player.
C10_Witness ==
    /\ result.op = "discard" /\ result.ret = "ok" /\ ~game.winner.set
    /\ game.phase = "draw" /\ ~game.connected[game.currentTurn]

\* Points of a card as the specification states them: Ace 1, J/Q/K 10,
\* numerals their face value
CardPoints(c) ==
    IF ValueOf(c) = 1 THEN 1 ELSE IF ValueOf(c) \in 11..13 THEN 10 ELSE ValueOf(c)

RECURSIVE HandPoints(_)
HandPoints(hand) == IF hand = <<>> THEN 0 ELSE CardPoints(Head(hand)) + HandPoints(Tail(hand))

\* C11: whenever a call records a winner (the record is set and new, or an
\* accepted endTurn wrote it), the record has one score entry per player
\* whose points are the point total of that player's hand (Ace 1, J/Q/K 10,
\* numerals face value), exactly one entry is flagged as winner, it is the
\* entry of the player the record names, and its points are 0; the record
\* names the player who acted (the caller of discard or endTurn, the bot in
\* turn of playBotTurn).
C11_WinRecord ==
    [][(/\ game'.winner.set
        /\ game'.winner # game.winner \/ (result'.op = "endTurn" /\ result'.ret = "ok")) =>
        LET w == game'.winner
            seats == DOMAIN game'.ids
        IN  /\ DOMAIN w.scores = seats
            /\ \A s \in seats : w.scores[s].points = HandPoints(game'.hands[s])
            /\ Cardinality({s \in seats : w.scores[s].isWinner}) = 1
            /\ \A s \in seats : w.scores[s].isWinner =>
                    (game'.ids[s] = w.playerId /\ w.scores[s].points = 0)
            /\ result'.op \in {"discard", "endTurn"} => w.playerId = result'.actor
            /\ result'.op = "playBotTurn" => w.playerId = game.ids[game.currentTurn]
      ]_vars

\* C11 witness: a discard recorded a winner while another player still held
\* a face card and more than ten points.
C11_Witness ==
    /\ result.op = "discard" /\ result.ret = "ok" /\ game.winner.set
    /\ \E s \in DOMAIN game.ids :
        /\ game.winner.scores[s].points > 10
        /\ \E i \in 1..Len(game.hands[s]) : ValueOf(game.hands[s][i]) > 10

\* Every entry of the hands and of the two piles is a card of the pool
OnlyCards(g) ==
    /\ \A s \in DOMAIN g.hands : Range(g.hands[s]) \subseteq Pool
    /\ Range(g.deck) \subseteq Pool
    /\ Range(g.discardPile) \subseteq Pool

\* Two sequences hold the same entries, each as often
SameCards(a, b) ==
    /\ Len(a) = Len(b)
    /\ \A c \in Range(a) \cup Range(b) :
        Cardinality({i \in 1..Len(a) : a[i] = c}) = Cardinality({i \in 1..Len(b) : b[i] = c})

\* C12: an accepted drawCard appends exactly one card of the pool to the hand
\* in turn, leaves the other hands alone and sets phase to play; the card is
\* the top discard (which leaves the discard pile), or the front card of the
\* draw pile, the draw pile having first been refilled, if it was empty, with
\* all discards but the top one, which alone stays on the discard pile; a
\* draw refused with 'Discard pile is empty' found the discard pile empty;
\* and no draw leaves a non-card in a hand or on a pile.
C12_DrawMovesOneCard ==
    [][result'.op = "drawCard" =>
        LET cur == game.currentTurn
            hand == game.hands[cur]
            drawn == Pop(game'.hands[cur])
        IN  /\ result'.error = ErrEmptyPile => game.discardPile = <<>>
            /\ result'.ret = "ok" =>
                /\ game'.hands = [game.hands EXCEPT ![cur] = Append(hand, drawn)]
                /\ drawn \in Pool
                /\ game'.phase = "play"
                /\ OnlyCards(game')
                /\ \/ /\ game.discardPile # <<>>
                      /\ drawn = Pop(game.discardPile)
                      /\ game'.discardPile = ButLast(game.discardPile)
                      /\ game'.deck = game.deck
                   \/ /\ game.deck # <<>>
                      /\ drawn = Head(game.deck)
                      /\ game'.deck = Tail(game.deck)
                      /\ game'.discardPile = game.discardPile
                   \/ /\ game.deck = <<>>
                      /\ game.discardPile # <<>>
                      /\ game'.discardPile = <<Pop(game.discardPile)>>
                      /\ SameCards(<<drawn>> \o game'.deck, ButLast(game.discardPile))
      ]_vars

\* C13: no match is started from a pool of fewer than
\* numPlayers * perPlayer + 1 cards: every match initGame has set up has a
\* full hand for every player and one card of the pool on the discard pile.
C13_NoShortDeal ==
    result.op = "initGame" =>
        /\ \A s \in DOMAIN game.hands : Len(game.hands[s]) = CardsPerPlayer
        /\ Len(game.discardPile) = 1
        /\ game.discardPile[1] \in Pool

\* A requested starting index clamped into 0..n-1
Clamped(f, n) == IF f < 0 THEN 0 ELSE IF f > n - 1 THEN n - 1 ELSE f

\* C14: a match as initGame has set it up holds, for some order of the full
\* pool of pairwise distinct cards, the first perPlayer cards in seat 0's
\* hand, the next perPlayer in seat 1's and so on, the one card after them on
\* the discard pile and the rest as the draw pile; it has no melds, no winner,
\* phase draw, and, whatever starting index is requested, that index clamped
\* into 0..numPlayers-1 as currentTurn.
C14_InitialState ==
    result.op = "initGame" =>
        LET all == createMultipleDecks(NumDecks)
            seats == DOMAIN game.ids
            n == Cardinality(seats)
            per == CardsPerPlayer
        IN  /\ Len(all) = NumDecks * NumSuits * Cardinality(ModelRanks)
            /\ \A i, j \in 1..Len(all) : all[i] = all[j] => i = j
            /\ seats = 0..(n - 1)
            /\ n * per + 1 <= Len(all)
            /\ \E shuffled \in shuffle(all) :
                /\ \A s \in seats :
                    game.hands[s] = [k \in 1..per |-> shuffled[s * per + k]]
                /\ game.discardPile = <<shuffled[n * per + 1]>>
                /\ game.deck = [k \in 1..(Len(all) - n * per - 1) |-> shuffled[n * per + 1 + k]]
                /\ \A f \in (0 - 1)..n :
                    initGame(game.isTestPlayer, shuffled, f).currentTurn = Clamped(f, n)
            /\ game.melds = <<>>
            /\ ~game.winner.set
            /\ game.phase = "draw"
            /\ game.currentTurn \in seats

----------------------------------------------------------------------------
(* The meld validators on card lists of their own *)

MaxMeldLen == 4

\* The card of a deck, suit (0 hearts, 1 diamonds, 2 clubs, 3 spades) and value
Card(deckIndex, suit, value) == deckIndex * DeckSize + suit * RanksPerSuit + (value - 1)

\* The cards the lists are made of: every spade, and 4, 5, 6 of hearts and of
\* diamonds, of each deck
ProbeCards ==
    {Card(d, 3, v) : d \in 0..(NumDecks - 1), v \in 1..RanksPerSuit}
    \cup {Card(d, s, v) : d \in 0..(NumDecks - 1), s \in {0, 1}, v \in 4..6}

CardLists == UNION {[1..n -> ProbeCards] : n \in 0..MaxMeldLen}

InitMeld ==
    /\ game \in {[cards |-> l] : l \in CardLists}
    /\ lobby = <<>>
    /\ nextMeldId = 1
    /\ result = [op |-> "none"]
    /\ steps = 0

ValidateMeld ==
    /\ result.op = "none"
    /\ result' = [op |-> "isValidMeld",
                  run |-> isValidRun(game.cards),
                  set |-> isValidSet(game.cards),
                  meld |-> isValidMeld(game.cards)]
    /\ UNCHANGED <<game, lobby, nextMeldId, steps>>

NextMeld == ValidateMeld

SpecMeld == InitMeld /\ [][NextMeld]_vars

\* The values of the cards, Aces read as ace, are lo, lo + 1, ... once each
Consecutive(cards, ace) ==
    LET v == [i \in 1..Len(cards) |-> IF ValueOf(cards[i]) = 1 THEN ace ELSE ValueOf(cards[i])]
    IN  \E lo \in 1..14 :
            \A k \in 0..(Len(cards) - 1) :
                Cardinality({i \in 1..Len(cards) : v[i] = lo + k}) = 1

HasValue(cards, value) == \E i \in 1..Len(cards) : ValueOf(cards[i]) = value

\* A run as the specification states it
RunAsSpecified(cards) ==
    /\ Len(cards) >= 3
    /\ \A i, j \in 1..Len(cards) : SuitOf(cards[i]) = SuitOf(cards[j])
    /\ \/ Consecutive(cards, 1)
       \/ /\ HasValue(cards, 1) /\ HasValue(cards, 13) /\ ~HasValue(cards, 2)
          /\ Consecutive(cards, 14)

\* C15: for every card list, in every order, isValidRun is true exactly when
\* there are 3 or more cards of one suit whose values are consecutive without
\* repeats with the Ace as 1, or, when the list has an Ace and a King and no
\* 2, with the Ace as 14; 4-5-6 of hearts, A-2-3 and Q-K-A of spades are
\* runs, 4-5-6 of mixed suits and K-A-2 of spades are not.
C15_ValidRun ==
    /\ result.op = "isValidMeld" => result.run = RunAsSpecified(game.cards)
    /\ isValidRun(<<Card(0, 0, 4), Card(0, 0, 5), Card(0, 0, 6)>>)
    /\ isValidRun(<<Card(0, 3, 1), Card(0, 3, 2), Card(0, 3, 3)>>)
    /\ isValidRun(<<Card(0, 3, 12), Card(0, 3, 13), Card(0, 3, 1)>>)
    /\ ~isValidRun(<<Card(0, 0, 4), Card(0, 3, 5), Card(0, 0, 6)>>)
    /\ ~isValidRun(<<Card(0, 3, 13), Card(0, 3, 1), Card(0, 3, 2)>>)

\* C15 witness: a list with the Ace ahead of Queen and King was found to be
\* a run.
C15_Witness ==
    /\ result.op = "isValidMeld" /\ result.run
    /\ Len(game.cards) = 3
    /\ ValueOf(game.cards[1]) = 1 /\ ValueOf(game.cards[2]) = 12
    /\ ValueOf(game.cards[3]) = 13

\* C16: for every card list, isValidSet is true exactly when there are 3 or
\* more cards and all have one rank, whatever their suits, and isValidMeld is
\* isValidRun or isValidSet.
C16_ValidSetAndMeld ==
    result.op = "isValidMeld" =>
        /\ result.set = (/\ Len(game.cards) >= 3
                         /\ \A i, j \in 1..Len(game.cards) :
                                ValueOf(game.cards[i]) = ValueOf(game.cards[j]))
        /\ result.meld = (result.run \/ result.set)

\* C16 witness: three cards of one rank, two of them of the same suit, were
\* found to be a set and no run.
C16_Witness ==
    /\ result.op = "isValidMeld" /\ result.set /\ ~result.run /\ result.meld
    /\ Len(game.cards) = 3
    /\ SuitOf(game.cards[1]) = SuitOf(game.cards[2])
    /\ SuitOf(game.cards[1]) # SuitOf(game.cards[3])

\* C17: after any interleaving of disconnects and reconnects, the socket of
\* every connected human player is attached to that player's own seat, and the
\* view returned for it shows that seat's hand
C17_ReconnectKeepsSeat ==
    \A s \in DOMAIN lobby.ids :
        (~game.isTestPlayer[s] /\ lobby.connected[s]) =>
            LET view == getPlayerView(game, lobby.ids[s])
            IN  /\ findIndex(game, lobby.ids[s]) = s
                /\ ~view.null
                /\ view.myHand = game.hands[s]

\* C18: playerDisconnected changes nothing but the connected flag of the
\* player whose socket it names (hands, piles, table, currentTurn, phase,
\* winner record and player list stay); while the player in turn is
\* disconnected the turn stays with that seat and no operation of another
\* player or of the bot timer is accepted or changes the match.
C18_DisconnectOnlyFlag ==
    [][/\ result'.op = "playerDisconnected" =>
            /\ Frozen(game') = Frozen(game)
            /\ game'.ids = game.ids
            /\ game'.isTestPlayer = game.isTestPlayer
            /\ \A i \in DOMAIN game.ids :
                    game'.connected[i] # game.connected[i] =>
                        (game.ids[i] = result'.actor /\ ~game'.connected[i])
       /\ (~game.connected[game.currentTurn]
           /\ findIndex(game, result'.actor) # game.currentTurn) =>
            /\ game'.currentTurn = game.currentTurn
            /\ result'.op \in PlayerOps \cup {"playBotTurn"} =>
                    (result'.ret # "ok" /\ Frozen(game') = Frozen(game))]_vars

Reverse(s) == [i \in 1..Len(s) |-> s[Len(s) + 1 - i]]

\* Match states next to g: the draw pile or a hand reversed; the front cards
\* of a hand and of the draw pile exchanged; the front card of a hand and the
\* bottom discard exchanged; the front card of the draw pile moved to a hand;
\* the turn passed on; a seat's connection dropped
Neighbours(g) ==
    LET seats == DOMAIN g.ids
    IN  {[g EXCEPT !.deck = Reverse(@)]}
        \cup {[g EXCEPT !.hands[s] = Reverse(@)] : s \in seats}
        \cup {[g EXCEPT !.hands[s] = <<g.deck[1]>> \o Tail(@),
                        !.deck = <<g.hands[s][1]>> \o Tail(@)] :
                s \in {t \in seats : g.hands[t] # <<>> /\ g.deck # <<>>}}
        \cup {[g EXCEPT !.hands[s] = <<g.discardPile[1]>> \o Tail(@),
                        !.discardPile = <<g.hands[s][1]>> \o Tail(@)] :
                s \in {t \in seats : g.hands[t] # <<>> /\ g.discardPile # <<>>}}
        \cup {[g EXCEPT !.hands[s] = Append(@, g.deck[1]), !.deck = Tail(@)] :
                s \in {t \in seats : g.deck # <<>>}}
        \cup {[g EXCEPT !.currentTurn = (@ + 1) % Cardinality(seats)]}
        \cup {[g EXCEPT !.connected[s] = FALSE] : s \in seats}

\* What the claim lets a player see of a match
Visible(g, p) ==
    <<g.hands[p], [s \in DOMAIN g.ids |-> <<Len(g.hands[s]), g.connected[s]>>],
      g.melds, Pop(g.discardPile), Len(g.discardPile), Len(g.deck),
      g.currentTurn, g.phase, g.winner>>

\* What the claim hides: the other hands' cards, the draw pile's cards and
\* the discards below the top one
Hidden(g, p) ==
    <<[s \in DOMAIN g.ids \ {p} |-> g.hands[s]], g.deck, ButLast(g.discardPile)>>

\* C19: for every seat, a match state that agrees with the current one on
\* the seat's own hand, every hand's size and connection flag, the table, the
\* top discard and the discard count, the draw-pile count, currentTurn,
\* phase and winner gets the same view for that seat, whatever the other
\* hands, the draw pile and the lower discards hold.
C19_ViewHidesOtherHands ==
    \A p \in DOMAIN game.ids :
        \A g2 \in Neighbours(game) :
            Visible(g2, p) = Visible(game, p)
                => getPlayerView(g2, game.ids[p]) = getPlayerView(game, game.ids[p])

\* C19 witness: a player has just drawn from the draw pile, and a state with
\* another first card in the other player's hand and in the draw pile agrees
\* on all that the drawer may see
C19_Witness ==
    /\ result.op = "drawCard" /\ result.ret = "ok" /\ ActorSeat # 0 - 1
    /\ \E g2 \in Neighbours(game) :
        /\ Visible(g2, ActorSeat) = Visible(game, ActorSeat)
        /\ Hidden(g2, ActorSeat) # Hidden(game, ActorSeat)
        /\ g2.deck # game.deck
        /\ \E s \in DOMAIN game.ids : g2.hands[s] # game.hands[s]
        /\ ~getPlayerView(game, result.actor).null

\* The registry after a draw from the discard pile in one match, and what
\* that draw returns
Drawn(games, lobbyCode, actor) ==
    store(games, lobbyCode, drawCard(lookup(games, lobbyCode), actor, "discard", <<>>).game)

DrawReturns(games, lobbyCode, actor) ==
    LET out == drawCard(lookup(games, lobbyCode), actor, "discard", <<>>)
    IN  <<out.ret, out.error, out.game>>

\* Draws by the players in turn of two running matches give the same
\* registry and return the same in either order
DrawsCommute ==
    \A c \in Codes, d \in Codes :
        (c # d /\ game[c] # NoGame /\ game[d] # NoGame) =>
            LET a == game[c].ids[game[c].currentTurn]
                b == game[d].ids[game[d].currentTurn]
            IN  /\ Drawn(Drawn(game, c, a), d, b) = Drawn(Drawn(game, d, b), c, a)
                /\ DrawReturns(Drawn(game, d, b), c, a) = DrawReturns(game, c, a)

C21_EndTurn ==
    [][result'.op = "endTurn" =>
        LET seat == findIndex(game, result'.actor)
        IN  IF seat = game.currentTurn /\ game.hands[seat] = <<>>
            THEN /\ result'.ret = "ok"
                 /\ game'.winner.set
                 /\ game'.winner.playerId = result'.actor
            ELSE /\ result'.ret \in {"fail", "throw"}
                 /\ game' = game]_vars

\* The match after the melding steps of a bot turn that drew from d: full
\* table rearrangement, single-card additions, new melds from the hand
BotMelded(d) ==
    LET rearranged == BotRearrange(d, nextMeldId)
        added == BotAdditions(rearranged.game)
    IN  BotNewMelds(added, findPossibleMelds(added.hands[d.currentTurn]),
                    rearranged.freshId).game

\* C22: a playBotTurn call made while a bot holds the turn and no winner is
\* set is accepted; it draws one card into the bot's hand (phase play), melds
\* by rearrangement, additions and new melds in that order, and then either
\* records the bot as winner on an empty hand without discarding, or discards
\* the card findBestDiscard chooses and records the bot as winner if the hand
\* is then empty, or else passes the turn on by one (mod numPlayers) with
\* phase draw; the other hands are not touched.
C22_BotTurnPolicy ==
    [][(/\ result'.op = "playBotTurn"
        /\ game.isTestPlayer[game.currentTurn]
        /\ ~game.winner.set) =>
        LET cur == game.currentTurn
            bot == game.ids[cur]
            won == game'.winner.set /\ game'.winner.playerId = bot
        IN  /\ result'.ret = "ok"
            /\ \A s \in DOMAIN game.ids \ {cur} : game'.hands[s] = game.hands[s]
            /\ \E reshuffled \in Reshuffles :
                LET d == BotDraw(game, reshuffled).game
                    m == BotMelded(d)
                    c == findBestDiscard(m.hands[cur], m.melds)
                IN  /\ Len(d.hands[cur]) = Len(game.hands[cur]) + 1
                    /\ d.phase = "play"
                    /\ game'.melds = m.melds
                    /\ IF m.hands[cur] = <<>>
                       THEN won /\ game'.discardPile = d.discardPile
                                /\ game'.hands[cur] = <<>>
                       ELSE /\ c \in Range(m.hands[cur])
                            /\ game'.discardPile = Append(d.discardPile, c)
                            /\ Len(game'.hands[cur]) = Len(m.hands[cur]) - 1
                            /\ game'.hands[cur] = RemoveCard(m.hands[cur], c)
                            /\ IF game'.hands[cur] = <<>> THEN won
                               ELSE /\ ~game'.winner.set
                                    /\ game'.currentTurn = (cur + 1) % Cardinality(DOMAIN game.ids)
                                    /\ game'.phase = "draw"]_vars

----------------------------------------------------------------------------
(* The bot's searches and the bot's turn, on matches drawn from a small pool *)

MaxBotHand == 4   \* cards in the bot's hand before it draws

\* The cards of hands and table: A-4 of spades, 2-4 of hearts, 3 and 4 of
\* diamonds, and the 3 of spades of a second deck
BotPool ==
    {Card(0, 0, v) : v \in 1..4} \cup {Card(0, 1, v) : v \in 2..4}
    \cup {Card(0, 2, v) : v \in 3..4} \cup {Card(1, 0, 3)}

RECURSIVE Ascending(_)
Ascending(S) ==
    IF S = {} THEN <<>>
    ELSE LET least == CHOOSE c \in S : \A d \in S : c <= d
         IN  <<least>> \o Ascending(S \ {least})

\* Tables of at most two legal melds of three or four cards
BotTables ==
    LET candidates == {Ascending(S) : S \in {T \in SUBSET BotPool :
                            Cardinality(T) \in {3, 4} /\ isValidMeld(Ascending(T))}}
    IN  {<<>>}
        \cup {<<[id |-> 1, cards |-> m]>> : m \in candidates}
        \cup {<<[id |-> 1, cards |-> p[1]], [id |-> 2, cards |-> p[2]]>> :
                p \in {q \in candidates \X candidates : Range(q[1]) \cap Range(q[2]) = {}}}

\* A match of a human (seat 0, holding two clubs) and a bot (seat 1) in the
\* bot's draw phase: the pool's cards that are neither on the table nor in the
\* bot's hand are on the draw pile, above a club; a club is the top discard
BotMatch(table, hand) ==
    [ids |-> [i \in 0..1 |-> InitialId(i)],
     isTestPlayer |-> [i \in 0..1 |-> i = 1],
     connected |-> [i \in 0..1 |-> TRUE],
     hands |-> [i \in 0..1 |-> IF i = 1 THEN hand ELSE <<Card(0, 3, 11), Card(0, 3, 12)>>],
     deck |-> Append(Ascending(BotPool \ (Range(TableCards(table)) \cup Range(hand))),
                     Card(0, 3, 9)),
     discardPile |-> <<Card(0, 3, 7)>>,
     melds |-> table,
     currentTurn |-> 1,
     phase |-> "draw",
     winner |-> NoWinner]

InitBot ==
    /\ \E table \in BotTables :
        \E H \in SUBSET (BotPool \ Range(TableCards(table))) :
            /\ Cardinality(H) \in 1..MaxBotHand
            /\ \E hand \in {Ascending(H), [i \in 1..Cardinality(H) |->
                                                Ascending(H)[Cardinality(H) + 1 - i]]} :
                    game = BotMatch(table, hand)
    /\ lobby = lobbyOf(game)
    /\ nextMeldId = 3
    /\ result = [op |-> "initGame", actor |-> Stranger, ret |-> "ok", error |-> "",
                 changed |-> TRUE]
    /\ steps = 0

\* this.tryBotRearrangement(tableCards, currentPlayer.hand, requiredTableCardIds)
\* as playBotTurn calls it, on the match as it is
TryBotRearrangement ==
    /\ result.op = "initGame"
    /\ LET tableCards == TableCards(game.melds)
           out == tryBotRearrangement(tableCards, CurrentHand, Range(tableCards))
       IN  result' = [op |-> "tryBotRearrangement", actor |-> Stranger,
                      ret |-> IF out.success THEN "ok" ELSE "fail", error |-> "",
                      changed |-> FALSE, out |-> out]
    /\ UNCHANGED <<game, lobby, nextMeldId, steps>>

\* this.findBestDiscard(currentPlayer.hand, game.melds) on the match as it is
FindBestDiscard ==
    /\ result.op = "initGame"
    /\ result' = [op |-> "findBestDiscard", actor |-> Stranger, ret |-> "ok", error |-> "",
                  changed |-> FALSE, out |-> findBestDiscard(CurrentHand, game.melds)]
    /\ UNCHANGED <<game, lobby, nextMeldId, steps>>

NextBot ==
    \/ PlayBotTurn
    \/ TryBotRearrangement
    \/ FindBestDiscard

SpecBot == InitBot /\ [][NextBot]_vars

\* C23: when tryBotRearrangement reports success, every new meld is a legal
\* meld, no card is in two melds, every card of the table is in a new meld,
\* the new melds hold only cards of the table and of the hand, at least one
\* hand card is used and at least one is left, and cardsFromHand is exactly
\* the hand cards placed in the new melds.
C23_BotRearrangement ==
    (result.op = "tryBotRearrangement" /\ result.out.success) =>
        LET out == result.out
            placed == Flatten(out.newMelds)
            table == Range(TableCards(game.melds))
            hand == Range(CurrentHand)
        IN  /\ \A i \in 1..Len(out.newMelds) : isValidMeld(out.newMelds[i])
            /\ \A i, j \in 1..Len(placed) : placed[i] = placed[j] => i = j
            /\ table \subseteq Range(placed)
            /\ Range(placed) \subseteq table \cup hand
            /\ Range(placed) \cap hand # {}
            /\ hand \ Range(placed) # {}
            /\ Range(out.cardsFromHand) = Range(placed) \cap hand
            /\ Len(out.cardsFromHand) = Cardinality(Range(placed) \cap hand)

\* C23 witness: a successful rearrangement that regroups the table: a meld
\* of the table is in none of the new melds as a whole, and two or more hand
\* cards are placed
C23_Witness ==
    /\ result.op = "tryBotRearrangement" /\ result.out.success
    /\ Len(result.out.cardsFromHand) >= 2
    /\ \E m \in 1..Len(game.melds) : \A i \in 1..Len(result.out.newMelds) :
            ~(Range(game.melds[m].cards) \subseteq Range(result.out.newMelds[i]))

\* The cards of the hand in turn that extend a meld of the table, and those
\* that extend none, are in no meld findPossibleMelds forms from the hand and
\* have no rank-mate and no suit neighbour in the hand
Extending ==
    {c \in Range(CurrentHand) :
        \E m \in 1..Len(game.melds) : canAddToMeld(c, game.melds[m].cards) # "none"}

Useless ==
    {c \in Range(CurrentHand) \ Extending :
        /\ \A i \in 1..Len(findPossibleMelds(CurrentHand)) :
                c \notin Range(findPossibleMelds(CurrentHand)[i])
        /\ \A d \in Range(CurrentHand) \ {c} :
                /\ ValueOf(d) # ValueOf(c)
                /\ SuitOf(d) = SuitOf(c) =>
                        (ValueOf(d) - ValueOf(c) # 1 /\ ValueOf(c) - ValueOf(d) # 1)}

\* C24: findBestDiscard returns a card of the hand (the hand is not empty),
\* and when the hand holds a card that extends a table meld and a card that
\* extends none, is in no meld formable from the hand and has no rank-mate
\* and no suit neighbour in the hand, the card returned extends no table
\* meld.
C24_BestDiscard ==
    result.op = "findBestDiscard" =>
        /\ CurrentHand # <<>>
        /\ result.out \in Range(CurrentHand)
        /\ (Extending # {} /\ Useless # {}) => result.out \notin Extending

\* C24 witness: the extending card is the highest card of the hand, and the
\* card returned is a lower one
C24_Witness ==
    /\ result.op = "findBestDiscard"
    /\ Useless # {}
    /\ \E e \in Extending : \A c \in Range(CurrentHand) \ {e} : ValueOf(c) < ValueOf(e)
    /\ result.out \notin Extending

\* C29: in a bot turn none of the melding steps (rearrangement, additions,
\* new melds) leaves the bot's hand empty: a bot that is recorded as winner
\* has discarded its last card.
C29_BotKeepsCardToDiscard ==
    [][(/\ result'.op = "playBotTurn"
        /\ result'.ret = "ok"
        /\ game.isTestPlayer[game.currentTurn]
        /\ ~game.winner.set) =>
        /\ \A reshuffled \in Reshuffles :
                LET d == BotDraw(game, reshuffled).game
                IN  /\ BotRearrange(d, nextMeldId).game.hands[game.currentTurn] # <<>>
                    /\ BotAdditions(BotRearrange(d, nextMeldId).game).hands[game.currentTurn] # <<>>
                    /\ BotMelded(d).hands[game.currentTurn] # <<>>
        /\ game'.winner.set =>
                /\ Len(game'.discardPile) >= 1
                /\ Pop(game'.discardPile) \in Range(game.hands[game.currentTurn])
                                              \cup {Shift(game.deck), Pop(game.discardPile)}
                /\ game'.discardPile # game.discardPile
                /\ game'.discardPile # ButLast(game.discardPile)]_vars


----------------------------------------------------------------------------
(* Rearrangements that regroup the table, on matches with melds laid out *)

MaxRunLen == 6       \* the longest run on the table
MaxTableSteps == 2   \* rearrangements followed from a laid-out table

\* The cards of table and hand: A-6 of spades, the 3 of hearts and of
\* diamonds, and the 3 of spades of a second deck
TablePool ==
    {Card(0, 0, v) : v \in 1..MaxRunLen} \cup {Card(0, 1, 3), Card(0, 2, 3), Card(1, 0, 3)}

\* The legal melds that can be formed from a set of cards, in ascending order
MeldsOf(cards) ==
    {Ascending(S) : S \in {T \in SUBSET cards :
                        Cardinality(T) \in 3..MaxRunLen /\ isValidMeld(Ascending(T))}}

\* The tables of one or two disjoint melds formed from a set of cards, with
\* the meld ids counted from firstId
TablesOf(cards, firstId) ==
    {<<[id |-> firstId, cards |-> m]>> : m \in MeldsOf(cards)}
    \cup {<<[id |-> firstId, cards |-> p[1]], [id |-> firstId + 1, cards |-> p[2]]>> :
            p \in {q \in MeldsOf(cards) \X MeldsOf(cards) : Range(q[1]) \cap Range(q[2]) = {}}}

\* A match of two humans in the play phase of seat 0, which holds a club and
\* the given cards; seat 1 holds two clubs
TableMatch(table, hand) ==
    [ids |-> [i \in 0..1 |-> InitialId(i)],
     isTestPlayer |-> [i \in 0..1 |-> FALSE],
     connected |-> [i \in 0..1 |-> TRUE],
     hands |-> [i \in 0..1 |-> IF i = 0 THEN Append(hand, Card(0, 3, 10))
                               ELSE <<Card(0, 3, 11), Card(0, 3, 12)>>],
     deck |-> <<Card(0, 3, 8), Card(0, 3, 9)>>,
     discardPile |-> <<Card(0, 3, 7)>>,
     melds |-> table,
     currentTurn |-> 0,
     phase |-> "play",
     winner |-> NoWinner]

InitTable ==
    /\ \E table \in TablesOf(TablePool, 1) :
        \E H \in SUBSET (TablePool \ Range(TableCards(table))) :
            /\ Cardinality(H) <= 1
            /\ game = TableMatch(table, Ascending(H))
    /\ lobby = lobbyOf(game)
    /\ nextMeldId = 3
    /\ result = [op |-> "initGame", actor |-> Stranger, ret |-> "ok", error |-> "",
                 changed |-> TRUE]
    /\ steps = 0

\* socket.on('game:rearrange'): the proposed table regroups the cards of the
\* table, with or without cards of the hand, into melds with fresh ids
RearrangeTableRegrouped ==
    /\ Ready
    /\ steps < MaxTableSteps
    /\ \E actor \in Actors :
        \E proposedMelds \in Payloads(actor,
                TablesOf(Range(TableCards(game.melds)) \cup (Range(CurrentHand) \cap TablePool),
                         nextMeldId)) :
            Call("rearrangeTable", actor,
                 rearrangeTable(game, actor, proposedMelds, AddedFromHand(proposedMelds)))

\* socket.on('game:rearrange'): the proposed table edits the table
RearrangeTableEdited == steps < MaxTableSteps /\ RearrangeTable

NextTable ==
    \/ RearrangeTableEdited
    \/ RearrangeTableRegrouped

SpecTable == InitTable /\ [][NextTable]_vars

\* C25: an accepted rearrangeTable leaves on the table only melds that
\* either hold the cards of a meld of the previous table or hold at least one
\* card of the acting player's hand; a proposal that only regroups table cards
\* into new melds is not accepted.
C25_NewMeldsHoldHandCard ==
    [][(result'.op = "rearrangeTable" /\ result'.ret = "ok") =>
        \A i \in 1..Len(game'.melds) :
            \/ \E j \in 1..Len(game.melds) :
                    Range(game.melds[j].cards) = Range(game'.melds[i].cards)
            \/ Range(game'.melds[i].cards)
                    \cap Range(game.hands[findIndex(game, result'.actor)]) # {}]_vars


\* C27: an accepted playMeld appends one meld of pairwise distinct cards of
\* the actor's hand, shortens that hand by exactly the length of the meld,
\* leaves none of the meld's cards in it, and leaves currentTurn, phase, both
\* piles, the other melds and the other hands unchanged; a request that
\* repeats a card id is not accepted.
C27_PlayMeldMovesListedCards ==
    [][(result'.op = "playMeld" /\ result'.ret = "ok") =>
        LET seat == findIndex(game, result'.actor)
            hand == game.hands[seat]
            cards == Pop(game'.melds).cards
        IN  /\ game'.melds = Append(game.melds, Pop(game'.melds))
            /\ \A i, j \in 1..Len(cards) : cards[i] = cards[j] => i = j
            /\ Range(cards) \subseteq Range(hand)
            /\ Len(game'.hands[seat]) = Len(hand) - Len(cards)
            /\ Range(game'.hands[seat]) = Range(hand) \ Range(cards)
            /\ \A other \in DOMAIN game.hands \ {seat} : game'.hands[other] = game.hands[other]
            /\ game'.currentTurn = game.currentTurn /\ game'.phase = game.phase
            /\ game'.deck = game.deck /\ game'.discardPile = game.discardPile]_vars

\* C28: an accepted rearrangeTable removes from the actor's hand exactly the
\* cards that are on the new table and were not on the previous one, and no
\* card id occurs twice on the new table.
C28_RearrangeRemovesAddedCards ==
    [][(result'.op = "rearrangeTable" /\ result'.ret = "ok") =>
        LET seat == findIndex(game, result'.actor)
            hand == game.hands[seat]
            new == TableCards(game'.melds)
            added == Range(new) \ Range(TableCards(game.melds))
        IN  /\ \A i, j \in 1..Len(new) : new[i] = new[j] => i = j
            /\ added \subseteq Range(hand)
            /\ Range(game'.hands[seat]) = Range(hand) \ added
            /\ Len(game'.hands[seat]) = Len(hand) - Cardinality(added)]_vars


\* The card ids on the table, and those in the hands and the two piles
OnTable(g) == Range(TableCards(g.melds))
OffTable(g) ==
    UNION {Range(g.hands[seat]) : seat \in DOMAIN g.hands}
    \cup Range(g.deck) \cup Range(g.discardPile)

\* C30: no operation takes a card id off the table, and after every
\* operation no card id of the table is in a hand, the draw pile or the
\* discard pile.
C30_TableOnlyGrows ==
    [][/\ OnTable(game) \subseteq OnTable(game')
       /\ OnTable(game') \cap OffTable(game') = {}]_vars


\* The seat in turn has a draw that is accepted: for a human a drawCard from
\* the draw pile or from the discard pile, for a bot the draw of playBotTurn
DrawAvailable ==
    IF game.isTestPlayer[game.currentTurn]
    THEN \E reshuffled \in Reshuffles : BotDraw(game, reshuffled).ok
    ELSE \E source \in {"deck", "discard"}, reshuffled \in Reshuffles :
            drawCard(game, CurrentId, source, reshuffled).ret = "ok"

\* C26: in every reachable state in the draw phase with no winner, the
\* seat in turn has a draw that succeeds, an exhausted draw pile included.
C26_DrawNeverStuck ==
    (game.phase = "draw" /\ ~game.winner.set) => DrawAvailable


\* What an accepted addToMeld of a card to the meld at index m must leave
AddedTo(g, seat, cardId, m, position) ==
    [g EXCEPT !.hands[seat] = LET i == CHOOSE k \in 1..Len(@) :
                                        @[k] = cardId /\ \A j \in 1..(k - 1) : @[j] # cardId
                              IN  SubSeq(@, 1, i - 1) \o SubSeq(@, i + 1, Len(@)),
              !.melds[m].cards = IF position = "start" THEN <<cardId>> \o @
                                 ELSE @ \o <<cardId>>]

\* C31: for the player in turn in the play phase, an accepted
\* addToMeld(cardId, meldId, position) takes one occurrence of the card out of
\* the hand and puts it at the requested end of the named meld, whose id and
\* other cards stay as they were, and changes nothing else; the request is
\* accepted or rejected alike for both positions.
C31_AddToMeld ==
    Reads(CurrentId) =>
        \A cardId \in NamedCards, meldId \in MeldIds :
            /\ addToMeld(game, CurrentId, cardId, meldId, "start").ret
                    = addToMeld(game, CurrentId, cardId, meldId, "end").ret
            /\ addToMeld(game, CurrentId, cardId, meldId, "start").error
                    = addToMeld(game, CurrentId, cardId, meldId, "end").error
            /\ \A position \in {"start", "end"} :
                LET out == addToMeld(game, CurrentId, cardId, meldId, position)
                IN  out.ret = "ok" =>
                        /\ cardId \in Range(CurrentHand)
                        /\ \E m \in 1..Len(game.melds) :
                                /\ game.melds[m].id = meldId
                                /\ out.game = AddedTo(game, game.currentTurn, cardId, m, position)

\* C31 witness: a card was added to a meld, and a card of the hand can be put
\* at the start of a table meld whose first card is lower
C31_Witness ==
    /\ result.op = "addToMeld" /\ result.ret = "ok"
    /\ Reads(CurrentId)
    /\ \E cardId \in NamedCards, meldId \in MeldIds :
        LET out == addToMeld(game, CurrentId, cardId, meldId, "start")
        IN  /\ out.ret = "ok"
            /\ \E m \in 1..Len(out.game.melds) :
                    /\ Head(out.game.melds[m].cards) = cardId
                    /\ out.game.melds[m].cards[2] < cardId


\* C32: an operation changes no hand but that of the seat in turn, and
\* only when it is invoked by the player of that seat (the player the lobby
\* lists at that seat) or, for a bot's seat, is the bot's turn.
C32_HandsChangeInOwnTurn ==
    [][\A seat \in DOMAIN game.hands :
        game'.hands[seat] # game.hands[seat] =>
            /\ seat = game.currentTurn
            /\ \/ result'.op \in PlayerOps /\ result'.actor = lobby.ids[seat]
               \/ result'.op = "playBotTurn" /\ game.isTestPlayer[seat]]_vars


----------------------------------------------------------------------------
(* The room: lobbyManager's lobby with its sockets, its disconnect timers
   and its match *)

MaxLobbyPlayers == 3   \* settings.maxPlayers of the room
MaxSockets == 3        \* socket connections opened in a behaviour
MaxLobbySteps == 5     \* events handled in a behaviour

\* A player of lobby.players; odId is the persistent id handed to the client
LobbyPlayer(id, odId, isHost, isTestPlayer) ==
    [id |-> id, odId |-> odId, connected |-> TRUE, isHost |-> isHost,
     isTestPlayer |-> isTestPlayer]

\* `test_${playerId}`: an id no socket has
TestPlayerId(odId) == 0 - (odId + 1)

\* lobby.players.findIndex(p => p.id === socketId), 1-based (0: not found)
LobbyIndex(l, socketId) ==
    IF \E i \in 1..Len(l.players) : l.players[i].id = socketId
    THEN CHOOSE i \in 1..Len(l.players) :
            l.players[i].id = socketId /\ \A j \in 1..(i - 1) : l.players[j].id # socketId
    ELSE 0

\* lobby.players.find(p => p.odId === playerId), 1-based (0: not found)
LobbyIndexOfOdId(l, playerId) ==
    IF \E i \in 1..Len(l.players) : l.players[i].odId = playerId
    THEN CHOOSE i \in 1..Len(l.players) : l.players[i].odId = playerId
    ELSE 0

\* this.playerToLobby.get(socketId) and this.lobbies.get(code) both succeed
InLobby(l, socketId) == socketId \in l.playerToLobby /\ l.exists

\* createLobby(hostSocket, playerName, settings): issued counts the persistent
\* ids handed out; sockets, opened and timers are the server's connections and
\* pending timeouts
createLobby(hostSocketId) ==
    [exists |-> TRUE, host |-> hostSocketId,
     players |-> <<LobbyPlayer(hostSocketId, 1, TRUE, FALSE)>>,
     status |-> "waiting", playerToLobby |-> {hostSocketId}, issued |-> 1,
     sockets |-> {hostSocketId}, opened |-> hostSocketId, timers |-> {}]

\* joinLobby(socket, lobbyCode, playerName), with a name not yet taken
joinLobby(l, socketId) ==
    IF ~l.exists THEN [ok |-> FALSE, lobby |-> l]
    ELSE IF l.status # "waiting" THEN [ok |-> FALSE, lobby |-> l]
    ELSE IF Len(l.players) >= MaxLobbyPlayers THEN [ok |-> FALSE, lobby |-> l]
    ELSE [ok |-> TRUE,
          lobby |-> [l EXCEPT !.players = Append(@, LobbyPlayer(socketId, l.issued + 1,
                                                                FALSE, FALSE)),
                              !.playerToLobby = @ \cup {socketId},
                              !.issued = @ + 1]]

\* leaveLobby(socketId)
leaveLobby(l, socketId) ==
    LET playerIndex == LobbyIndex(l, socketId)
        rest == RemoveAt(l.players, playerIndex)
        left == [l EXCEPT !.players = rest, !.playerToLobby = @ \ {socketId}]
        handed == IF l.players[playerIndex].isHost /\ Len(rest) > 0
                  THEN [left EXCEPT !.players[1].isHost = TRUE, !.host = rest[1].id]
                  ELSE left
    IN  IF ~InLobby(l, socketId) \/ playerIndex = 0 THEN [ok |-> FALSE, lobby |-> l]
        ELSE IF Len(rest) = 0 THEN [ok |-> TRUE, lobby |-> [handed EXCEPT !.exists = FALSE]]
        ELSE [ok |-> TRUE, lobby |-> handed]

\* lobbyManager.playerDisconnected(socketId), on a lobby with its players
lobbyPlayerDisconnected(l, socketId) ==
    IF InLobby(l, socketId) /\ LobbyIndex(l, socketId) # 0
    THEN [l EXCEPT !.players[LobbyIndex(l, socketId)].connected = FALSE]
    ELSE l

\* lobbyManager.reconnectPlayer(socket, lobbyCode, playerId), on a lobby with
\* its players
lobbyReconnectPlayer(l, playerId, socketId) ==
    LET player == LobbyIndexOfOdId(l, playerId)
    IN  IF ~l.exists \/ player = 0 THEN [ok |-> FALSE, lobby |-> l]
        ELSE [ok |-> TRUE,
              lobby |-> [l EXCEPT !.playerToLobby = (@ \ {l.players[player].id})
                                                        \cup {socketId},
                                  !.players[player].id = socketId,
                                  !.players[player].connected = TRUE]]

\* startGame(socketId)
startGame(l, socketId) ==
    IF ~InLobby(l, socketId) THEN [ok |-> FALSE, lobby |-> l]
    ELSE IF l.host # socketId THEN [ok |-> FALSE, lobby |-> l]
    ELSE IF Len(l.players) < 2 THEN [ok |-> FALSE, lobby |-> l]
    ELSE [ok |-> TRUE, lobby |-> [l EXCEPT !.status = "playing"]]

\* addTestPlayer(socketId)
addTestPlayer(l, socketId) ==
    IF ~InLobby(l, socketId) THEN [ok |-> FALSE, lobby |-> l]
    ELSE IF l.status # "waiting" THEN [ok |-> FALSE, lobby |-> l]
    ELSE IF Len(l.players) >= MaxLobbyPlayers THEN [ok |-> FALSE, lobby |-> l]
    ELSE [ok |-> TRUE,
          lobby |-> [l EXCEPT !.players = Append(@, LobbyPlayer(TestPlayerId(l.issued + 1),
                                                                l.issued + 1, FALSE, TRUE)),
                              !.issued = @ + 1]]

\* resetLobbyForNewGame(lobbyCode)
resetLobbyForNewGame(l) ==
    IF ~l.exists THEN [ok |-> FALSE, lobby |-> l]
    ELSE [ok |-> TRUE, lobby |-> [l EXCEPT !.status = "waiting"]]

\* gameManager.initGame(lobby.code, lobby.players, lobby.settings, 0)
matchOf(l, shuffled) ==
    LET seats == 0..(Len(l.players) - 1)
    IN  [initGame([i \in seats |-> l.players[i + 1].isTestPlayer], shuffled, 0)
            EXCEPT !.ids = [i \in seats |-> l.players[i + 1].id]]

\* The callback of the 5-minute timeout set when socketId disconnected
disconnectTimeout_NoStatusCheck(l, socketId) ==
    LET player == LobbyIndex(l, socketId)
    IN  IF l.exists /\ player # 0 /\ ~l.players[player].connected
        THEN leaveLobby(l, socketId).lobby
        ELSE l

disconnectTimeout(l, socketId) ==
    LET player == LobbyIndex(l, socketId)
    IN  IF l.exists /\ player # 0 /\ ~l.players[player].connected /\ l.status = "waiting"
        THEN leaveLobby(l, socketId).lobby
        ELSE l

\* What a handler leaves behind: the room, the match and the reply
Handled(op, socketId, ok, l, g) ==
    /\ steps < MaxLobbySteps
    /\ steps' = steps + 1
    /\ lobby' = l
    /\ game' = g
    /\ result' = [op |-> op, actor |-> socketId, ret |-> IF ok THEN "ok" ELSE "fail",
                  error |-> "", changed |-> l # lobby \/ g # game]
    /\ UNCHANGED nextMeldId

InitLobby ==
    /\ lobby = createLobby(1)
    /\ game = NoGame
    /\ nextMeldId = 1
    /\ result = [op |-> "lobby:create", actor |-> 1, ret |-> "ok", error |-> "",
                 changed |-> TRUE]
    /\ steps = 0

\* A new connection and its socket.on('lobby:join')
LobbyJoin ==
    /\ lobby.opened < MaxSockets
    /\ LET socketId == lobby.opened + 1
           opened == [lobby EXCEPT !.opened = socketId, !.sockets = @ \cup {socketId}]
           joined == joinLobby(opened, socketId)
       IN  Handled("lobby:join", socketId, joined.ok, joined.lobby, game)

\* socket.on('lobby:leave')
LobbyLeave ==
    \E socketId \in lobby.sockets :
        LET left == leaveLobby(lobby, socketId)
        IN  Handled("lobby:leave", socketId, left.ok, left.lobby, game)

\* socket.on('lobby:addTestPlayer')
LobbyAddTestPlayer ==
    \E socketId \in lobby.sockets :
        LET added == addTestPlayer(lobby, socketId)
        IN  Handled("lobby:addTestPlayer", socketId, added.ok, added.lobby, game)

\* socket.on('game:start')
GameStart ==
    \E socketId \in lobby.sockets, shuffled \in shuffle(createMultipleDecks(NumDecks)) :
        LET started == startGame(lobby, socketId)
        IN  Handled("game:start", socketId, started.ok, started.lobby,
                    IF started.ok THEN matchOf(started.lobby, shuffled) ELSE game)

\* socket.on('game:draw') with source 'deck'
GameDraw ==
    /\ game # NoGame
    /\ \E socketId \in lobby.sockets, reshuffled \in shuffle(ButLast(game.discardPile)) :
        /\ InLobby(lobby, socketId)
        /\ LET drawn == drawCard(game, socketId, "deck", reshuffled)
           IN  Handled("game:draw", socketId, drawn.ret = "ok", lobby, drawn.game)

\* socket.on('game:playAgain')
GamePlayAgain ==
    \E socketId \in lobby.sockets :
        IF InLobby(lobby, socketId)
        THEN Handled("game:playAgain", socketId, TRUE,
                     resetLobbyForNewGame(lobby).lobby, NoGame)
        ELSE Handled("game:playAgain", socketId, FALSE, lobby, game)

\* socket.on('disconnect'): the socket is gone; in a waiting lobby the
\* timeout is set
Disconnect ==
    \E socketId \in lobby.sockets :
        LET gone == [lobby EXCEPT !.sockets = @ \ {socketId}]
            marked == lobbyPlayerDisconnected(gone, socketId)
        IN  IF ~InLobby(lobby, socketId)
            THEN Handled("disconnect", socketId, FALSE, gone, game)
            ELSE IF lobby.status = "playing"
            THEN Handled("disconnect", socketId, TRUE, marked,
                         IF game = NoGame THEN game
                         ELSE playerDisconnected(game, socketId).game)
            ELSE Handled("disconnect", socketId, TRUE,
                         [marked EXCEPT !.timers = @ \cup {socketId}], game)

\* A new connection and its socket.on('game:reconnect') with a persistent id
GameReconnect ==
    /\ lobby.opened < MaxSockets
    /\ \E playerId \in 1..lobby.issued :
        LET socketId == lobby.opened + 1
            opened == [lobby EXCEPT !.opened = socketId, !.sockets = @ \cup {socketId}]
            back == lobbyReconnectPlayer(opened, playerId, socketId)
        IN  Handled("game:reconnect", socketId, back.ok, back.lobby,
                    IF back.ok /\ back.lobby.status = "playing" /\ game # NoGame
                    THEN playerReconnected(game, playerId, socketId, Undefined).game
                    ELSE game)

\* The timeout set by a disconnect fires
DisconnectTimeout ==
    \E socketId \in lobby.timers :
        Handled("timeout", socketId, TRUE,
                disconnectTimeout([lobby EXCEPT !.timers = @ \ {socketId}], socketId), game)

NextLobby ==
    \/ LobbyJoin
    \/ LobbyLeave
    \/ LobbyAddTestPlayer
    \/ GameStart
    \/ GameDraw
    \/ GamePlayAgain
    \/ Disconnect
    \/ GameReconnect
    \/ DisconnectTimeout

SpecLobby == InitLobby /\ [][NextLobby]_vars


\* The players of a match, ids aside
RosterOf(g) == [i \in DOMAIN g.ids |-> g.isTestPlayer[i]]

\* C34: a match is created only by a start that takes the room from
\* waiting to playing, and is discarded only by play again; a start request
\* for a room that is already playing leaves the running match as it is; the
\* roster of a running match does not change.
C34_MatchLifecycle ==
    [][/\ (game = NoGame /\ game' # NoGame) =>
                /\ result'.op = "game:start"
                /\ lobby.status = "waiting" /\ lobby'.status = "playing"
       /\ (game # NoGame /\ game' = NoGame) => result'.op = "game:playAgain"
       /\ (game # NoGame /\ lobby.status = "playing" /\ result'.op = "game:start") =>
                game' = game
       /\ (game # NoGame /\ game' # NoGame) => RosterOf(game') = RosterOf(game)]_vars

\* The players flagged as host
Hosts == {i \in 1..Len(lobby.players) : lobby.players[i].isHost}

\* C36: while the lobby exists exactly one player is flagged isHost, and
\* lobby.host is that player's current socket id.
C36_HostConsistent ==
    lobby.exists =>
        /\ Cardinality(Hosts) = 1
        /\ \A i \in Hosts : lobby.host = lobby.players[i].id

\* The persistent ids of the players of a lobby
OdIds(l) == {l.players[i].odId : i \in 1..Len(l.players)}

\* C37: when the timeout set by the disconnect of a socket fires, the
\* player who held that socket is removed exactly if they are still in the
\* lobby under that socket id, still disconnected, and the lobby is waiting:
\* then the lobby is deleted if it becomes empty, and otherwise the first
\* remaining player is host if the removed player was; a player who has
\* reconnected, or whose lobby is playing, stays, and so does everyone else.
C37_DisconnectTimeout ==
    [][result'.op = "timeout" =>
        LET player == LobbyIndex(lobby, result'.actor)
            due == /\ lobby.exists /\ player # 0
                   /\ ~lobby.players[player].connected
                   /\ lobby.status = "waiting"
        IN  IF due
            THEN /\ OdIds(lobby') = OdIds(lobby) \ {lobby.players[player].odId}
                 /\ Len(lobby'.players) = Len(lobby.players) - 1
                 /\ lobby'.exists <=> Len(lobby.players) > 1
                 /\ (lobby.players[player].isHost /\ Len(lobby.players) > 1) =>
                        /\ lobby'.players[1].isHost
                        /\ lobby'.host = lobby'.players[1].id
            ELSE /\ lobby'.players = lobby.players
                 /\ lobby'.exists = lobby.exists
                 /\ lobby'.host = lobby.host]_vars

\* C37 witness: the creator of the lobby disconnected after a second player
\* had joined, the timeout fired, and the second player is the host
C37_Witness ==
    /\ result.op = "timeout" /\ result.actor = 1 /\ steps = 3
    /\ lobby.exists /\ Len(lobby.players) = 1
    /\ lobby.players[1].odId = 2 /\ lobby.players[1].isHost
    /\ lobby.host = lobby.players[1].id

----------------------------------------------------------------------------
(* The bot's search on tables and hands that can be regrouped into several
   melds *)

MaxSearchHand == 6   \* cards in the bot's hand

\* A, 2 and 3 of every suit: four runs, and three or four of a kind per rank
SearchPool == {Card(0, suit, v) : suit \in 0..(SuitsPerDeck - 1), v \in 1..3}

InitSearch ==
    /\ \E table \in TablesOf(SearchPool, 1) :
        \E H \in SUBSET (SearchPool \ Range(TableCards(table))) :
            /\ Cardinality(H) \in {1, 3, MaxSearchHand}
            /\ game = BotMatch(table, Ascending(H))
    /\ lobby = lobbyOf(game)
    /\ nextMeldId = 3
    /\ result = [op |-> "initGame", actor |-> Stranger, ret |-> "ok", error |-> "",
                 changed |-> TRUE]
    /\ steps = 0

NextSearch ==
    \/ TryBotRearrangement
    \/ FindBestDiscard

SpecSearch == InitSearch /\ [][NextSearch]_vars

\* The arrangement the search returns for the table and the hand in turn
Arrangement ==
    findValidArrangement(TableCards(game.melds) \o CurrentHand,
                         Range(TableCards(game.melds))).melds

\* C38 as stated: an arrangement returned by the bot's search combines at
\* most BotDepthLimit melds, no call being nested deeper than the limit
\* (every nested call adds one meld to currentMelds).
C38_SearchDepthBounded ==
    result.op = "tryBotRearrangement" => Len(Arrangement) <= BotDepthLimit

\* C38, amended: the search stops in the call nested one deeper than the
\* limit (the test is depth > limit), so an arrangement combines at most
\* BotDepthLimit + 1 melds; the search ends for every table and hand.
C38_SearchDepthBoundedByOneMore ==
    result.op = "tryBotRearrangement" => Len(Arrangement) <= BotDepthLimit + 1

\* C38 witness: the search returned BotDepthLimit + 1 melds for a table and a
\* hand that hold the whole pool, from which the four runs can be formed
C38_Witness ==
    /\ result.op = "tryBotRearrangement"
    /\ Len(Arrangement) = BotDepthLimit + 1
    /\ SearchPool \subseteq Range(TableCards(game.melds) \o CurrentHand)
    /\ \A suit \in 0..(SuitsPerDeck - 1) :
            <<Card(0, suit, 1), Card(0, suit, 2), Card(0, suit, 3)>>
                \in MeldsOf(Range(TableCards(game.melds) \o CurrentHand))


\* A candidate meld of cards of one rank, and one of cards of one suit
OfOneRank(m) == \A i \in 1..Len(m) : ValueOf(m[i]) = ValueOf(m[1])
OfOneSuit(m) == \A i \in 1..Len(m) : SuitOf(m[i]) = SuitOf(m[1])

FullPlayers == (Len(createMultipleDecks(NumDecks)) - 2) \div CardsPerPlayer

FullRosters == {b \in [0..(FullPlayers - 1) -> BOOLEAN] : ~b[0]}

InitFull ==
    /\ \E bots \in FullRosters, shuffled \in shuffle(createMultipleDecks(NumDecks)),
          firstPlayerIndex \in 0..(FullPlayers - 1) :
            game = initGame(bots, shuffled, firstPlayerIndex)
    /\ lobby = lobbyOf(game)
    /\ nextMeldId = 1
    /\ result = [op |-> "initGame", actor |-> Stranger, ret |-> "ok", error |-> "",
                 changed |-> TRUE]
    /\ steps = 0

SpecFull == InitFull /\ [][Next]_vars

\* The cards lying in the draw pile and in the discard pile together, and the
\* number left over by the deal of the whole pool
PileTotal(g) == Len(g.deck) + Len(g.discardPile)
StartTotal(g) ==
    Len(createMultipleDecks(NumDecks)) - Cardinality(DOMAIN g.hands) * CardsPerPlayer

\* C35: in every reachable state in the draw phase with no winner, draw pile
\* and discard pile together hold as many cards as the deal left over (the
\* pool less numPlayers * perPlayer); so at a draw from an empty draw pile
\* the discard pile holds that many, and the reshuffle leaves a draw pile
\* that is not empty if that number is at least 2.
C35_PileTotalConstant ==
    (game.phase = "draw" /\ ~game.winner.set) =>
        /\ PileTotal(game) = StartTotal(game)
        /\ (Len(game.deck) = 0 /\ StartTotal(game) >= 2) =>
                \A reshuffled \in Reshuffles :
                    /\ Len(game.discardPile) = StartTotal(game)
                    /\ Len(reshuffled) > 0


\* The seat after the one in turn
NextSeat(g) == (g.currentTurn + 1) % Cardinality(DOMAIN g.hands)

\* C33: whenever a processBotTurns timer fires, between whatever other
\* events, playBotTurn leaves the match as it was unless the seat in turn is
\* a bot and no winner is set; a bot turn is one step that changes no hand
\* but the bot's own and ends with a winner set or with the next seat in its
\* draw phase, so that the chain of bot turns goes on to the next human turn
\* or to a win.
C33_BotTurnsConfined ==
    [][result'.op = "playBotTurn" =>
        IF game.isTestPlayer[game.currentTurn] /\ ~game.winner.set
        THEN /\ \A seat \in DOMAIN game.hands :
                    seat # game.currentTurn => game'.hands[seat] = game.hands[seat]
             /\ \/ game'.winner.set
                \/ /\ game'.currentTurn = NextSeat(game)
                   /\ game'.phase = "draw"
        ELSE game' = game /\ result'.ret = "null"]_vars

====
